---- MODULE Spec2Model ----
(***************************************************************************)
(* A model of the Slot-Monte-Carlo simulator.                              *)
(*                                                                         *)
(*   SpecRound / FairRound : Game::simulateGameRound, the cascading        *)
(*                           free-game queue, for both game modules        *)
(*                           (DeepDive and SS03Game).                      *)
(***************************************************************************)
EXTENDS Integers, Sequences, FiniteSets, TLC

VARIABLES
    \* ---- Game module (DeepDive.cpp / SS03Game.cpp) ----
    gameData,                     \* static gameData, tagged with the game module built in
    isInitialized,                \* static std::atomic<bool> isInitialized
    sim_mode,                     \* SimulationMode argument of the round in progress
    second_chance_prob,           \* second_chance_prob argument, in percent
    rpc,                          \* position inside simulateGameRound
    fg_processing_queue,          \* std::vector<FG_Item>, used as a stack
    result,                       \* the GameResult under construction / returned
    cap_warning_logged_this_run,  \* DeepDive: static std::atomic<bool>
    warnings,                     \* DeepDive: cap warnings written to std::cout this round
    round_log,                    \* what the round did: the base item drawn, the draw of
                                  \* chance_dist, the pushes, the last pick (history)
    \* ---- OnlineStats (MonteCarloSimulator.cpp) ----
    thisStats,                    \* the accumulator update() and combine() are called on
    otherStats,                   \* the argument of combine()
    thisSamples,                  \* the values thisStats stands for
    otherSamples,                 \* the values otherStats stands for
    operands,                     \* <<*this, other>> as they were when combine() was called
    combine_pc,                   \* "ready", or how the call of combine() ended
    \* ---- MonteCarloSimulator ----
    m_histogram,                  \* struct Histogram: dividers, bins, underflow, overflow
    m_histogram_configured,
    m_stats,                      \* struct Stats: count
    percentile_calls,             \* the last two calls of getPercentileFromHistogram
    spc,                          \* position of the simulator inside run()
    call,                         \* the arguments of the run() in progress or last made
    batch,                        \* loop variables of the single-threaded runners
    round,
    next_batch,                   \* next iteration the omp for loop hands out
    threads,                      \* what each thread of the parallel region owns
    tpc,                          \* position, m_rng state read and seed of each thread
    m_agg,                        \* the std::atomic members
    m_final_online_stats,         \* its count
    m_results,
    per_round,                    \* the per-round vectors of runAccurateMode_Parallel
    m_rng,                        \* the master stream: the number of its state
    simulated,                    \* the GameResults of the rounds of this run, as returned
    runs,                         \* calls of run() so far
    \* ---- threads of a parallel region inside Game::simulateGameRound ----
    workers,                      \* per thread: position, queue size, warnings of its round
    \* ---- the histogram setters of MonteCarloSimulator ----
    config_call,                  \* the last setter called: arguments, outcome, state before
    \* ---- the loaders of the Game module ----
    load_log,                     \* how the last load ended, whether one completed before
    \* ---- the runners of MonteCarloSimulator: top values, batch means, intervals ----
    report_pc,                    \* position inside run() and its runner
    report_call,                  \* the arguments of the run() in progress
    m_top_values_tracker,         \* std::vector<double>
    thread_top_values,            \* per thread: std::vector<double>
    m_batch_means,                \* std::vector<double>
    thread_batch_means,           \* per thread: std::vector<double>
    top_values,                   \* m_stats.top_values
    confidence_intervals,         \* m_stats.confidence_intervals
    m_bootstrap_means,            \* std::vector<double>
    resample_i,                   \* next iteration i of the bootstrap loop
    batch_log,                    \* per executed batch: index, thread, round totals (history)
    \* ---- runAccurateMode_Parallel: the stores into std::vector<bool> fg_triggered ----
    flag_pc,                      \* position inside the runner
    flag_call,                    \* k and m of the runner
    fg_triggered,                 \* std::vector<bool>: the bits of its one storage word
    flag_next,                    \* next iteration the omp for loop hands out
    flag_threads,                 \* per thread: position, batch, round, value, word read
    flag_log,                     \* per index: fg_was_triggered of the round (history)
    triggered_count               \* m_fg_triggered_count after the counting loop

roundVars == <<gameData, isInitialized, sim_mode, second_chance_prob, rpc, fg_processing_queue,
               result, cap_warning_logged_this_run, warnings, round_log>>

statsVars == <<thisStats, otherStats, thisSamples, otherSamples, operands, combine_pc>>

histVars == <<m_histogram, m_histogram_configured, m_stats>>

simVars == <<spc, call, batch, round, next_batch, threads, tpc, m_agg,
             m_final_online_stats, m_results, per_round, m_rng, simulated, runs>>

workerVars == <<workers>>

configVars == <<config_call>>

loadVars == <<load_log>>

reportVars == <<report_pc, report_call, m_top_values_tracker, thread_top_values,
                m_batch_means, thread_batch_means, top_values, confidence_intervals,
                m_bootstrap_means, resample_i, batch_log>>

flagVars == <<flag_pc, flag_call, fg_triggered, flag_next, flag_threads, flag_log,
              triggered_count>>

\* the simulator variables but m_results
simOther == <<spc, call, batch, round, next_batch, threads, tpc, m_agg,
              m_final_online_stats, per_round, m_rng, simulated, runs>>

vars == <<roundVars, statsVars, histVars, percentile_calls, simVars, workerVars, configVars,
          loadVars, reportVars, flagVars>>

\* what the actions of one component leave alone
exceptRound == <<statsVars, histVars, percentile_calls, simVars, workerVars, configVars, loadVars,
    reportVars, flagVars>>
exceptStats == <<roundVars, histVars, percentile_calls, simVars, workerVars, configVars, loadVars,
    reportVars, flagVars>>
exceptHist == <<roundVars, statsVars, simVars, workerVars, configVars, loadVars,
    reportVars, flagVars>>
exceptSim == <<roundVars, statsVars, percentile_calls, workerVars, configVars, loadVars,
    reportVars, flagVars>>
exceptWorkers == <<statsVars, histVars, percentile_calls, simVars, configVars, loadVars,
    reportVars, flagVars>>
exceptLoad == <<statsVars, histVars, percentile_calls, simVars, workerVars, configVars,
    reportVars, flagVars>>
exceptReport == <<roundVars, statsVars, histVars, percentile_calls, simOther, workerVars,
    configVars, loadVars, flagVars>>
exceptFlags == <<roundVars, statsVars, histVars, percentile_calls, simVars, workerVars,
    configVars, loadVars, reportVars>>
exceptConfig == <<roundVars, statsVars, percentile_calls, simVars, workerVars, loadVars,
    reportVars, flagVars>>

(***************************************************************************)
(* Bounds of the model.                                                    *)
(***************************************************************************)
\* fg_run_length, fg_nonzero_picks and fg_levels stop growing at MaxTrack and
\* fg_score at MaxScore, so that a round that never ends has finitely many states.
MaxTrack == 12
MaxScore == 6000

(***************************************************************************)
(* Program constants.                                                      *)
(***************************************************************************)
MAX_QUEUE_SIZE_DeepDive == 1000
MAX_QUEUE_SIZE_SS03 == 2000
\* picks seeded by FG_ONLY, by a second chance (SS03) and by every DeepDive
\* trigger and continuation
DefaultPicks == 10

Max(a, b) == IF a >= b THEN a ELSE b
Min(a, b) == IF a <= b THEN a ELSE b

RECURSIVE SumSeq(_)
SumSeq(s) == IF s = <<>> THEN 0 ELSE Head(s) + SumSeq(Tail(s))

SatAdd(x, d) == Min(x + d, MaxTrack)
SatScore(x, d) == Min(x + d, MaxScore)
\* a push_back that is left out
SkippedAppend(s, e) == s

SatAppend(s, e) == IF Len(s) < MaxTrack THEN Append(s, e) ELSE s

(***************************************************************************)
(* Game data.  One record shape serves both modules: DeepDive reads flag   *)
(* and count, SS03Game reads trigger_num and retrigger_num.                *)
(***************************************************************************)
BG(index, value, flag, trigger_num, levels) ==
    [index |-> index, value |-> value, flag |-> flag,
     trigger_num |-> trigger_num, levels |-> levels]

FG(index, value, flag, count, retrigger_num, levels) ==
    [index |-> index, value |-> value, flag |-> flag, count |-> count,
     retrigger_num |-> retrigger_num, levels |-> levels]

Data(module, bg, fg, map, pools) ==
    [module |-> module, bg_items |-> bg, fg_items |-> fg,
     item_to_pool_map |-> map, multiplier_pools |-> pools]

\* item_to_pool_map is a set of <<item index, pool id>> pairs with unique keys.
NoMap == {}

DeepDiveConfigs ==
    { \* every feature item continues
      Data("DeepDive", <<BG(0, 2, TRUE, 0, 2)>>, <<FG(0, 100, TRUE, 0, 0, 1)>>, NoMap, <<>>),
      \* no feature item continues, base item does not trigger
      Data("DeepDive", <<BG(0, 2, FALSE, 0, 1)>>, <<FG(0, 100, FALSE, 0, 0, 3)>>, NoMap, <<>>),
      \* two base items, two feature items without continuation
      Data("DeepDive", <<BG(0, 0, FALSE, 0, 1), BG(1, 5, TRUE, 0, 2)>>,
           <<FG(0, 0, FALSE, 0, 0, 1), FG(1, 100, FALSE, 0, 0, 1)>>, NoMap, <<>>),
      \* two multiplier draws from a pool of two values
      Data("DeepDive", <<BG(0, 1, TRUE, 0, 1)>>, <<FG(0, 100, FALSE, 2, 0, 2)>>,
           {<<0, 0>>}, <<<<2, 3>>>>),
      \* count without a pool mapping, and a mapping to an empty pool
      Data("DeepDive", <<BG(0, 1, TRUE, 0, 1)>>, <<FG(0, 100, FALSE, 1, 0, 1)>>, NoMap, <<>>),
      Data("DeepDive", <<BG(0, 1, TRUE, 0, 1)>>, <<FG(0, 100, FALSE, 1, 0, 1)>>,
           {<<0, 0>>}, <<<<>>>>),
      \* the base item triggers, the feature item has no multiplier draws
      Data("DeepDive", <<BG(0, 2, TRUE, 0, 1)>>, <<FG(0, 100, FALSE, 0, 0, 1)>>, NoMap, <<>>),
      \* empty pools
      Data("DeepDive", <<>>, <<FG(0, 100, FALSE, 0, 0, 1)>>, NoMap, <<>>),
      Data("DeepDive", <<BG(0, 1, TRUE, 0, 1)>>, <<>>, NoMap, <<>>) }

SS03Configs ==
    { \* every feature item retriggers one pick
      Data("SS03", <<BG(0, 2, FALSE, 3, 2)>>, <<FG(0, 100, FALSE, 0, 1, 1)>>, NoMap, <<>>),
      \* one retrigger grants as many picks as the cap
      Data("SS03", <<BG(0, 2, FALSE, 1, 4)>>,
           <<FG(0, 100, FALSE, 0, MAX_QUEUE_SIZE_SS03, 2)>>, NoMap, <<>>),
      \* a base item that asks for more initial picks than the cap
      Data("SS03", <<BG(0, 0, FALSE, MAX_QUEUE_SIZE_SS03 + 1, 1)>>,
           <<FG(0, 100, FALSE, 0, 0, 4)>>, NoMap, <<>>),
      \* two base items (no trigger / two picks), two feature items, no retrigger
      Data("SS03", <<BG(0, 0, FALSE, 0, 1), BG(1, 5, FALSE, 2, 3)>>,
           <<FG(0, 0, FALSE, 0, 0, 3), FG(1, 100, FALSE, 0, 0, 3)>>, NoMap, <<>>),
      \* one initial pick, and three, without retrigger
      Data("SS03", <<BG(0, 2, FALSE, 1, 2)>>, <<FG(0, 100, FALSE, 0, 0, 3)>>, NoMap, <<>>),
      Data("SS03", <<BG(0, 2, FALSE, 3, 2)>>, <<FG(0, 100, FALSE, 0, 0, 3)>>, NoMap, <<>>),
      \* empty pools
      Data("SS03", <<>>, <<FG(0, 100, FALSE, 0, 0, 1)>>, NoMap, <<>>),
      Data("SS03", <<BG(0, 1, FALSE, 1, 1)>>, <<>>, NoMap, <<>>) }

GameConfigs == DeepDiveConfigs \cup SS03Configs

\* the configurations with one feature item
OneFeatureItem == {d \in GameConfigs : Len(d.fg_items) = 1}

SimulationModes == {"FULL_GAME", "FG_ONLY", "BG_ONLY"}
\* second_chance_prob and the uniform draw of chance_dist, in percent
ChanceProbs == {0, 50}
ChanceDraws == {25, 75}

MaxQueueSize(d) ==
    IF d.module = "DeepDive" THEN MAX_QUEUE_SIZE_DeepDive ELSE MAX_QUEUE_SIZE_SS03

\* n draws of fg_dist(rng), pushed in order
FgDraws(d, n) == [1..n -> 1..Len(d.fg_items)]
\* a queue of one item fewer than drawn
PushedOneShort(d, draws) == [i \in 1..(Len(draws) - 1) |-> d.fg_items[draws[i]]]
Pushed(d, draws) == [i \in DOMAIN draws |-> d.fg_items[draws[i]]]

GameResult(bg, fg, len, trig, nz, mbg, mfg, bgl, fgl) ==
    [bg_score |-> bg, fg_score |-> fg, fg_run_length |-> len,
     fg_was_triggered |-> trig, fg_nonzero_picks |-> nz,
     max_bg_multiplier |-> mbg, max_fg_multiplier |-> mfg,
     bg_levels |-> bgl, fg_levels |-> fgl]

NoResult == GameResult(0, 0, 0, FALSE, 0, 1, 1, 0, <<>>)

\* SS03: level -> multiplier tables
BgMultiplier(levels) ==
    IF levels <= 0 THEN 1
    ELSE IF levels = 1 THEN 1
    ELSE IF levels = 2 THEN 2
    ELSE IF levels = 3 THEN 3
    ELSE 5

FgMultiplier(levels) ==
    IF levels <= 0 THEN 2
    ELSE IF levels = 1 THEN 2
    ELSE IF levels = 2 THEN 4
    ELSE IF levels = 3 THEN 6
    ELSE 10

\* The variables of a component that a specification does not run keep these values.
StatsIdle ==
    /\ thisStats = <<>>
    /\ otherStats = <<>>
    /\ thisSamples = <<>>
    /\ otherSamples = <<>>
    /\ operands = <<>>
    /\ combine_pc = "off"

HistIdle ==
    /\ m_histogram = <<>>
    /\ m_histogram_configured = FALSE
    /\ m_stats = <<>>
    /\ percentile_calls = <<>>

SimIdle ==
    /\ spc = "off"
    /\ call = <<>>
    /\ batch = 0
    /\ round = 0
    /\ next_batch = 0
    /\ threads = <<>>
    /\ tpc = <<>>
    /\ m_agg = <<>>
    /\ m_final_online_stats = <<>>
    /\ m_results = <<>>
    /\ per_round = <<>>
    /\ m_rng = 0
    /\ simulated = <<>>
    /\ runs = 0

WorkersIdle == workers = <<>>

ConfigIdle == config_call = <<>>

LoadIdle == load_log = <<>>

FlagsIdle ==
    /\ flag_pc = "off"
    /\ flag_call = <<>>
    /\ fg_triggered = <<>>
    /\ flag_next = 0
    /\ flag_threads = <<>>
    /\ flag_log = <<>>
    /\ triggered_count = 0

ReportIdle ==
    /\ report_pc = "off"
    /\ report_call = <<>>
    /\ m_top_values_tracker = <<>>
    /\ thread_top_values = <<>>
    /\ m_batch_means = <<>>
    /\ thread_batch_means = <<>>
    /\ top_values = <<>>
    /\ confidence_intervals = <<>>
    /\ m_bootstrap_means = <<>>
    /\ resample_i = 0
    /\ batch_log = <<>>

RoundIdle ==
    /\ gameData = <<>>
    /\ isInitialized = FALSE
    /\ sim_mode = "FULL_GAME"
    /\ second_chance_prob = 0
    /\ rpc = "off"
    /\ fg_processing_queue = <<>>
    /\ result = <<>>
    /\ cap_warning_logged_this_run = FALSE
    /\ warnings = 0
    /\ round_log = <<>>

(***************************************************************************)
(* Game::simulateGameRound.  rpc is "idle" before the call, "feature"      *)
(* while the while-loop over fg_processing_queue runs, "returned" after    *)
(* the return statement.  While the loop runs, result holds the locals     *)
(* that the return statement copies into the GameResult.                   *)
(***************************************************************************)
Return(r) ==
    /\ rpc' = "returned"
    /\ result' = r

\* The history of a round.  chosen: the position in bg_items of the base item
\* drawn, 0 if bg_dist(rng) was not called.  chance_drawn, chance: whether
\* chance_dist(rng) was called, and its value.  initial_picks: the items
\* pushed before the loop.  enqueued: the push_back calls so far (tracked up
\* to MaxTrack).  capped: the size check of the loop has refused a push or
\* left the loop.  pick: the last item popped, its multiplier and what it
\* added to fg_score.  multipliers: the sum of the multipliers of the picks
\* (tracked up to MaxScore).
NoLog ==
    [chosen |-> 0, chance_drawn |-> FALSE, chance |-> 0, initial_picks |-> 0,
     enqueued |-> 0, capped |-> FALSE, pick |-> <<>>, multipliers |-> 0]

Log(chosen, chance_drawn, u, initial_picks) ==
    [NoLog EXCEPT !.chosen = chosen, !.chance_drawn = chance_drawn,
                  !.chance = IF chance_drawn THEN u ELSE 0,
                  !.initial_picks = initial_picks,
                  !.enqueued = Min(initial_picks, MaxTrack)]

\* a second chance that does not look at second_chance_prob > 0
SecondChanceWithoutGuard(prob, u) == u < 50

\* if (chance_dist(rng) < second_chance_prob), inside if (second_chance_prob > 0)
SecondChance(prob, u) == prob > 0 /\ u < prob

\* DeepDive: total_multiplier of one pick, one value per outcome of the draws
\* of multi_dist(rng)
MultiplierOutcomes(d, item) ==
    IF item.count = 0 THEN {1}
    ELSE LET hits == {p \in d.item_to_pool_map : p[1] = item.index}
         IN IF hits = {} THEN {0}
            ELSE LET pool_id == (CHOOSE p \in hits : TRUE)[2]
                 IN IF pool_id >= 0 /\ pool_id < Len(d.multiplier_pools)
                    THEN LET pool == d.multiplier_pools[pool_id + 1]
                         IN IF pool # <<>>
                            THEN { SumSeq([i \in 1..item.count |-> pool[ms[i]]]) :
                                     ms \in [1..item.count -> 1..Len(pool)] }
                            ELSE {0}
                    ELSE {0}

\* DeepDive, from the entry of simulateGameRound to the first test of the while-loop
SimulateGameRound_DeepDive(mode, prob) ==
    /\ rpc = "idle"
    /\ gameData.module = "DeepDive"
    /\ sim_mode' = mode
    /\ second_chance_prob' = prob
    /\ warnings' = 0
    /\ IF ~isInitialized
       THEN /\ rpc' = "threw"
            /\ round_log' = NoLog
            /\ UNCHANGED <<result, fg_processing_queue, cap_warning_logged_this_run>>
       ELSE IF gameData.bg_items = <<>>
       THEN /\ Return(GameResult(0, 0, 0, FALSE, 0, 1, 1, 0, <<>>))
            /\ round_log' = NoLog
            /\ UNCHANGED <<fg_processing_queue, cap_warning_logged_this_run>>
       ELSE IF mode = "BG_ONLY"
       THEN \E b \in 1..Len(gameData.bg_items) :
              LET chosen_bg == gameData.bg_items[b]
              IN /\ Return(GameResult(chosen_bg.value, 0, 0, FALSE, 0, 1, 1,
                                      chosen_bg.levels, <<>>))
                 /\ round_log' = Log(b, FALSE, 0, 0)
                 /\ UNCHANGED <<fg_processing_queue, cap_warning_logged_this_run>>
       ELSE \E b \in 1..Len(gameData.bg_items), u \in ChanceDraws :
              LET chosen_bg == gameData.bg_items[b]
                  bg_score == IF mode = "FG_ONLY" THEN 0 ELSE chosen_bg.value
                  bg_levels == IF mode = "FG_ONLY" THEN 0 ELSE chosen_bg.levels
                  chance_drawn == mode # "FG_ONLY" /\ ~chosen_bg.flag /\ prob > 0
                  proceed_to_fg ==
                      IF mode = "FG_ONLY" THEN TRUE
                      ELSE IF chosen_bg.flag THEN TRUE
                      ELSE SecondChance(prob, u)
                  chosen == IF mode = "FG_ONLY" THEN 0 ELSE b
              IN IF ~proceed_to_fg
                 THEN /\ Return(GameResult(bg_score, 0, 0, FALSE, 0, 1, 1, bg_levels, <<>>))
                      /\ round_log' = Log(chosen, chance_drawn, u, 0)
                      /\ UNCHANGED <<fg_processing_queue, cap_warning_logged_this_run>>
                 ELSE IF gameData.fg_items = <<>>
                 THEN /\ Return(GameResult(bg_score, 0, 0, TRUE, 0, 1, 1, bg_levels, <<>>))
                      /\ round_log' = Log(chosen, chance_drawn, u, 0)
                      /\ UNCHANGED <<fg_processing_queue, cap_warning_logged_this_run>>
                 ELSE \E draws \in FgDraws(gameData, DefaultPicks) :
                        /\ fg_processing_queue' = Pushed(gameData, draws)
                        /\ cap_warning_logged_this_run' = FALSE
                        /\ rpc' = "feature"
                        /\ result' = GameResult(bg_score, 0, 0, TRUE, 0, 1, 1, bg_levels, <<>>)
                        /\ round_log' = Log(chosen, chance_drawn, u, DefaultPicks)
    /\ UNCHANGED <<gameData, isInitialized, exceptRound>>

\* DeepDive, one iteration of while (!fg_processing_queue.empty())
FeatureStep_DeepDive ==
    /\ rpc = "feature"
    /\ gameData.module = "DeepDive"
    /\ fg_processing_queue # <<>>
    /\ LET current_fg == fg_processing_queue[Len(fg_processing_queue)]
           popped == SubSeq(fg_processing_queue, 1, Len(fg_processing_queue) - 1)
       IN \E total_multiplier \in MultiplierOutcomes(gameData, current_fg) :
            LET item_contribution == current_fg.value * total_multiplier
                pick == [item |-> current_fg, total_multiplier |-> total_multiplier,
                         item_contribution |-> item_contribution]
            IN /\ result' = [result EXCEPT
                     !.fg_run_length = SatAdd(@, 1),
                     !.fg_levels = SatAppend(@, current_fg.levels),
                     !.max_fg_multiplier =
                         IF total_multiplier >= @ THEN total_multiplier ELSE @,
                     !.fg_score = SatScore(@, item_contribution),
                     !.fg_nonzero_picks =
                         IF item_contribution # 0 THEN SatAdd(@, 1) ELSE @]
               /\ IF current_fg.flag
                  THEN IF Len(popped) > MAX_QUEUE_SIZE_DeepDive
                       THEN /\ cap_warning_logged_this_run' = TRUE
                            /\ warnings' = IF cap_warning_logged_this_run
                                           THEN warnings ELSE warnings + 1
                            /\ fg_processing_queue' = popped
                            /\ round_log' = [round_log EXCEPT
                                                !.capped = TRUE, !.pick = pick,
                                                !.multipliers = SatScore(@, total_multiplier)]
                       ELSE \E draws \in FgDraws(gameData, DefaultPicks) :
                              /\ fg_processing_queue' = popped \o Pushed(gameData, draws)
                              /\ round_log' = [round_log EXCEPT
                                                  !.enqueued = SatAdd(@, DefaultPicks),
                                                  !.pick = pick,
                                                  !.multipliers = SatScore(@, total_multiplier)]
                              /\ UNCHANGED <<cap_warning_logged_this_run, warnings>>
                  ELSE /\ fg_processing_queue' = popped
                       /\ round_log' = [round_log EXCEPT
                                           !.pick = pick,
                                           !.multipliers = SatScore(@, total_multiplier)]
                       /\ UNCHANGED <<cap_warning_logged_this_run, warnings>>
    /\ UNCHANGED <<gameData, isInitialized, sim_mode, second_chance_prob, rpc, exceptRound>>

\* DeepDive, the loop test fails and the function returns
FeatureReturn_DeepDive ==
    /\ rpc = "feature"
    /\ gameData.module = "DeepDive"
    /\ fg_processing_queue = <<>>
    /\ Return([result EXCEPT !.max_bg_multiplier = 1])
    /\ UNCHANGED <<gameData, isInitialized, sim_mode, second_chance_prob, fg_processing_queue,
                   cap_warning_logged_this_run, warnings, round_log, exceptRound>>

\* SS03Game, from the entry of simulateGameRound to the first test of the while-loop
SimulateGameRound_SS03(mode, prob) ==
    /\ rpc = "idle"
    /\ gameData.module = "SS03"
    /\ sim_mode' = mode
    /\ second_chance_prob' = prob
    /\ IF ~isInitialized
       THEN /\ rpc' = "threw"
            /\ round_log' = NoLog
            /\ UNCHANGED <<result, fg_processing_queue>>
       ELSE IF mode = "BG_ONLY"
       THEN IF gameData.bg_items = <<>>
            THEN /\ Return(NoResult)
                 /\ round_log' = NoLog
                 /\ UNCHANGED fg_processing_queue
            ELSE \E b \in 1..Len(gameData.bg_items) :
                   LET chosen_bg == gameData.bg_items[b]
                   IN /\ Return([NoResult EXCEPT
                                   !.bg_score = chosen_bg.value,
                                   !.bg_levels = chosen_bg.levels,
                                   !.max_bg_multiplier = BgMultiplier(chosen_bg.levels)])
                      /\ round_log' = Log(b, FALSE, 0, 0)
                      /\ UNCHANGED fg_processing_queue
       ELSE IF mode = "FULL_GAME" /\ gameData.bg_items = <<>>
       THEN /\ Return(NoResult)
            /\ round_log' = NoLog
            /\ UNCHANGED fg_processing_queue
       ELSE \E b \in (IF mode = "FULL_GAME" THEN 1..Len(gameData.bg_items) ELSE {0}),
               u \in ChanceDraws :
              LET chosen_bg == IF mode = "FULL_GAME" THEN gameData.bg_items[b]
                               ELSE BG(0, 0, FALSE, 0, 0)
                  \* FG_ONLY sets initial_triggers = 10 and fg_was_triggered
                  base == IF mode = "FG_ONLY"
                          THEN [NoResult EXCEPT !.fg_was_triggered = TRUE]
                          ELSE [NoResult EXCEPT
                                  !.bg_score = chosen_bg.value,
                                  !.bg_levels = chosen_bg.levels,
                                  !.max_bg_multiplier = BgMultiplier(chosen_bg.levels)]
                  chance_drawn ==
                      mode = "FULL_GAME" /\ chosen_bg.trigger_num = 0 /\ prob > 0
                  initial_triggers ==
                      IF mode = "FG_ONLY" THEN DefaultPicks
                      ELSE IF chosen_bg.trigger_num = 0 /\ SecondChance(prob, u)
                           THEN DefaultPicks
                           ELSE chosen_bg.trigger_num
              IN IF initial_triggers > 0
                 THEN IF gameData.fg_items = <<>>
                      THEN /\ Return([base EXCEPT !.fg_was_triggered = TRUE])
                           /\ round_log' = Log(b, chance_drawn, u, 0)
                           /\ UNCHANGED fg_processing_queue
                      ELSE \E draws \in FgDraws(gameData, initial_triggers) :
                             /\ fg_processing_queue' = Pushed(gameData, draws)
                             /\ rpc' = "feature"
                             /\ result' = [base EXCEPT !.fg_was_triggered = TRUE]
                             /\ round_log' = Log(b, chance_drawn, u, initial_triggers)
                 ELSE /\ Return(base)
                      /\ round_log' = Log(b, chance_drawn, u, 0)
                      /\ UNCHANGED fg_processing_queue
    /\ UNCHANGED <<gameData, isInitialized, cap_warning_logged_this_run, warnings, exceptRound>>

\* SS03Game, one iteration of while (!fg_processing_queue.empty()) that passes
\* the size check
FeatureStep_SS03 ==
    /\ rpc = "feature"
    /\ gameData.module = "SS03"
    /\ fg_processing_queue # <<>>
    /\ ~(Len(fg_processing_queue) > MAX_QUEUE_SIZE_SS03)
    /\ LET current_fg == fg_processing_queue[Len(fg_processing_queue)]
           popped == SubSeq(fg_processing_queue, 1, Len(fg_processing_queue) - 1)
           fg_multiplier == FgMultiplier(current_fg.levels)
       IN /\ result' = [result EXCEPT
                !.fg_run_length = SatAdd(@, 1),
                !.fg_levels = SatAppend(@, current_fg.levels),
                !.max_fg_multiplier = IF fg_multiplier > @ THEN fg_multiplier ELSE @,
                !.fg_score = SatScore(@, current_fg.value),
                !.fg_nonzero_picks = IF current_fg.value # 0 THEN SatAdd(@, 1) ELSE @]
          /\ IF current_fg.retrigger_num > 0
             THEN \E draws \in FgDraws(gameData, current_fg.retrigger_num) :
                    fg_processing_queue' = popped \o Pushed(gameData, draws)
             ELSE fg_processing_queue' = popped
          /\ round_log' = [round_log EXCEPT
                              !.enqueued = SatAdd(@, Max(current_fg.retrigger_num, 0)),
                              !.multipliers = SatScore(@, fg_multiplier),
                              !.pick = [item |-> current_fg,
                                        total_multiplier |-> fg_multiplier,
                                        item_contribution |-> current_fg.value]]
    /\ UNCHANGED <<gameData, isInitialized, sim_mode, second_chance_prob, rpc,
                   cap_warning_logged_this_run, warnings, exceptRound>>

\* SS03Game, the loop ends (empty queue, or break on the size check) and the
\* function returns
FeatureReturn_SS03 ==
    /\ rpc = "feature"
    /\ gameData.module = "SS03"
    /\ \/ fg_processing_queue = <<>>
       \/ Len(fg_processing_queue) > MAX_QUEUE_SIZE_SS03
    /\ Return(result)
    /\ round_log' = [round_log EXCEPT !.capped = fg_processing_queue # <<>>]
    /\ UNCHANGED <<gameData, isInitialized, sim_mode, second_chance_prob, fg_processing_queue,
                   cap_warning_logged_this_run, warnings, exceptRound>>

InitRound ==
    /\ LoadIdle
    /\ ReportIdle
    /\ FlagsIdle
    /\ ConfigIdle
    /\ WorkersIdle
    /\ StatsIdle
    /\ HistIdle
    /\ SimIdle
    /\ gameData \in GameConfigs
    /\ isInitialized = TRUE
    /\ sim_mode = "FULL_GAME"
    /\ second_chance_prob = 0
    /\ rpc = "idle"
    /\ fg_processing_queue = <<>>
    /\ result = NoResult
    /\ cap_warning_logged_this_run = FALSE
    /\ warnings = 0
    /\ round_log = NoLog

NextRound ==
    \/ \E mode \in SimulationModes, prob \in ChanceProbs :
         SimulateGameRound_DeepDive(mode, prob)
    \/ FeatureStep_DeepDive
    \/ FeatureReturn_DeepDive
    \/ \E mode \in SimulationModes, prob \in ChanceProbs :
         SimulateGameRound_SS03(mode, prob)
    \/ FeatureStep_SS03
    \/ FeatureReturn_SS03

SpecRound == InitRound /\ [][NextRound]_vars

\* A thread that is inside simulateGameRound keeps executing it.
InitOneFeatureItem == InitRound /\ gameData \in OneFeatureItem
FairRound == InitOneFeatureItem /\ [][NextRound]_vars /\ WF_vars(NextRound)

\* C1: every feature phase that starts comes to its return statement.
C1_FeaturePhaseTerminates == (rpc = "feature") ~> (rpc = "returned")

\* C2: while the feature loop runs, the queue holds at most MAX_QUEUE_SIZE items.
C2_QueueWithinCap ==
    rpc = "feature" => Len(fg_processing_queue) <= MaxQueueSize(gameData)

\* the base item drawn triggers the feature by itself: its flag (DeepDive),
\* its trigger_num (SS03Game)
BaseTriggers ==
    /\ round_log.chosen > 0
    /\ LET chosen_bg == gameData.bg_items[round_log.chosen]
       IN IF gameData.module = "DeepDive" THEN chosen_bg.flag
          ELSE chosen_bg.trigger_num > 0

Scenario ==
    /\ Len(gameData.bg_items) = 1
    /\ Len(gameData.fg_items) = 1
    /\ gameData.fg_items[1].value = 100
    /\ IF gameData.module = "DeepDive"
       THEN gameData.bg_items[1].flag /\ ~gameData.fg_items[1].flag
       ELSE gameData.bg_items[1].trigger_num > 0 /\ gameData.fg_items[1].retrigger_num = 0

ScenarioReturned == rpc = "returned" /\ sim_mode = "FULL_GAME" /\ Scenario

\* C13 as stated: in the scenario every FULL_GAME round has one feature pick
\* and total_score = base value + 100 * multiplier of that pick.
C13_ScenarioOnePick ==
    ScenarioReturned =>
        /\ result.fg_run_length = 1
        /\ round_log.pick # <<>>
        /\ result.bg_score + result.fg_score =
               gameData.bg_items[1].value + 100 * round_log.pick.total_multiplier

\* C13 as the code has it: in the scenario every FULL_GAME round has as many
\* feature picks as were pushed before the loop, 10 in DeepDive and
\* trigger_num in SS03Game (none if trigger_num is above the cap), and
\* total_score = base value + 100 * the sum of the multipliers of the picks
\* in DeepDive, base value + 100 * the number of picks in SS03Game.
C13_ScenarioInitialPicks ==
    ScenarioReturned =>
        /\ result.fg_was_triggered
        /\ IF gameData.module = "DeepDive"
           THEN /\ result.fg_run_length = 10
                /\ result.bg_score + result.fg_score =
                       gameData.bg_items[1].value + 100 * round_log.multipliers
           ELSE /\ result.fg_run_length =
                       (IF gameData.bg_items[1].trigger_num > MAX_QUEUE_SIZE_SS03 THEN 0
                        ELSE Min(gameData.bg_items[1].trigger_num, MaxTrack))
                /\ result.bg_score + result.fg_score =
                       gameData.bg_items[1].value + 100 * result.fg_run_length

\* a DeepDive round of the scenario has returned after 10 picks of multiplier 1
C13_Witness ==
    /\ ScenarioReturned
    /\ gameData.module = "DeepDive"
    /\ result.fg_run_length = 10
    /\ round_log.multipliers = 10
    /\ result.fg_score = 1000

\* the pool that item_to_pool_map and multiplier_pools give an item, <<>> if
\* the item has no mapping or the pool id is out of range
MappedPool(d, item) ==
    LET hits == {p \in d.item_to_pool_map : p[1] = item.index}
    IN IF hits = {} THEN <<>>
       ELSE LET pool_id == (CHOOSE p \in hits : TRUE)[2]
            IN IF pool_id >= 0 /\ pool_id < Len(d.multiplier_pools)
               THEN d.multiplier_pools[pool_id + 1]
               ELSE <<>>

\* the sums of n values of a pool
PoolSums(pool, n) == { SumSeq([i \in 1..n |-> pool[ms[i]]]) : ms \in [1..n -> 1..Len(pool)] }

\* C14: in DeepDive the multiplier of a feature pick is 1 when the item's
\* count is 0, a sum of count draws from the mapped pool when that pool is
\* not empty, and 1 when count is not 0 and the item has no mapping, the pool
\* id is out of range or the pool is empty; in these last cases the pick adds
\* its value to the feature score.
C14_MultiplierResolution ==
    (gameData.module = "DeepDive" /\ round_log.pick # <<>>) =>
        LET pick == round_log.pick
            pool == MappedPool(gameData, pick.item)
        IN IF pick.item.count = 0 THEN pick.total_multiplier = 1
           ELSE IF pool # <<>>
           THEN pick.total_multiplier \in PoolSums(pool, pick.item.count)
           ELSE /\ pick.total_multiplier = 1
                /\ pick.item_contribution = pick.item.value

\* C15: a FG_ONLY round of either module has bg_score = 0, has
\* fg_was_triggered set and pushes 10 items before the loop, whatever bg_items
\* holds (nothing included), if fg_items is not empty.
C15_FgOnlyAlwaysTriggered ==
    (rpc \in {"feature", "returned"} /\ sim_mode = "FG_ONLY" /\ gameData.fg_items # <<>>) =>
        /\ result.bg_score = 0
        /\ result.fg_was_triggered
        /\ round_log.initial_picks = 10

\* C16: a round of either module that has met the cap of the queue returns
\* with an empty queue and with as many picks as items were pushed (both
\* counts tracked up to MaxTrack).
C16_CappedRoundDrains ==
    (rpc = "returned" /\ round_log.capped) =>
        /\ fg_processing_queue = <<>>
        /\ result.fg_run_length = round_log.enqueued

\* C30: every GameResult simulateGameRound returns, in both modules and all
\* modes, has as many fg_levels as fg_run_length says, has fg_nonzero_picks
\* <= fg_run_length, and, if fg_was_triggered is false, has fg_score = 0,
\* fg_run_length = 0 and no fg_levels.
C30_ResultConsistent ==
    rpc = "returned" =>
        /\ Len(result.fg_levels) = result.fg_run_length
        /\ result.fg_nonzero_picks <= result.fg_run_length
        /\ ~result.fg_was_triggered =>
              /\ result.fg_score = 0
              /\ result.fg_run_length = 0
              /\ result.fg_levels = <<>>

\* a round has returned after feature picks of which some added nothing
C30_Witness ==
    /\ rpc = "returned"
    /\ result.fg_was_triggered
    /\ result.fg_run_length > 1
    /\ result.fg_nonzero_picks > 0
    /\ result.fg_nonzero_picks < result.fg_run_length

(***************************************************************************)
(* OnlineStats.  A double is modelled as the exact number                  *)
(* <<n, d, e>> = (n / d) * 2^e with n and d odd, coprime and d > 0 (zero   *)
(* is <<0, 1, 0>>): the model computes what update() and combine() compute *)
(* up to the rounding of each floating-point operation.  The long long     *)
(* subexpressions of combine() keep their 64 bits.                         *)
(***************************************************************************)
Abs(x) == IF x < 0 THEN -x ELSE x

RECURSIVE GCD(_, _)
GCD(a, b) == IF b = 0 THEN a ELSE GCD(b, a % b)

\* the number of times 2 divides n > 0
RECURSIVE TwoAdic(_)
TwoAdic(n) == IF n % 2 = 0 THEN 1 + TwoAdic(n \div 2) ELSE 0

Norm(n, d, e) ==
    IF n = 0 THEN <<0, 1, 0>>
    ELSE LET sgn == IF (n < 0) = (d < 0) THEN 1 ELSE -1
             g == GCD(Abs(n), Abs(d))
             an == Abs(n) \div g
             ad == Abs(d) \div g
             tn == TwoAdic(an)
             td == TwoAdic(ad)
         IN <<sgn * (an \div 2^tn), ad \div 2^td, e + tn - td>>

Q(n) == Norm(n, 1, 0)
QNeg(a) == <<-a[1], a[2], a[3]>>
QAdd(a, b) ==
    IF a[1] = 0 THEN b
    ELSE IF b[1] = 0 THEN a
    ELSE LET e == Min(a[3], b[3])
             g == GCD(a[2], b[2])
         IN Norm(a[1] * 2^(a[3] - e) * (b[2] \div g)
                   + b[1] * 2^(b[3] - e) * (a[2] \div g),
                 (a[2] \div g) * b[2], e)
QSub(a, b) == QAdd(a, QNeg(b))
QMul(a, b) ==
    LET g1 == GCD(Abs(a[1]), b[2])
        g2 == GCD(Abs(b[1]), a[2])
    IN IF a[1] = 0 \/ b[1] = 0 THEN Q(0)
       ELSE Norm((a[1] \div g1) * (b[1] \div g2),
                 (a[2] \div g2) * (b[2] \div g1), a[3] + b[3])
QDiv(a, b) == QMul(a, Norm(b[2], b[1], -b[3]))

\* a long long: the two's-complement 64-bit value of the integer a = n * 2^e
Wrap64(a) ==
    LET n == a[1]
        e == a[3]
        k == 63 - e
        r == n % 2^(k + 1)
    IN IF n = 0 \/ e <= 32 THEN a
       ELSE IF e >= 64 THEN Q(0)
       ELSE IF k = 30
            THEN IF n >= 2^30 THEN Norm((n - 2^30) - 2^30, 1, e)
                 ELSE IF n < -(2^30) THEN Norm((n + 2^30) + 2^30, 1, e)
                 ELSE a
       ELSE IF r >= 2^k THEN Norm(r - 2^(k + 1), 1, e)
       ELSE Norm(r, 1, e)
LLMul(a, b) == Wrap64(QMul(a, b))
LLAdd(a, b) == Wrap64(QAdd(a, b))
LLSub(a, b) == Wrap64(QSub(a, b))

\* struct OnlineStats { long long count = 0; double M1 = 0.0, M2, M3, M4; }
OnlineStats(count, M1, M2, M3, M4) ==
    [count |-> count, M1 |-> M1, M2 |-> M2, M3 |-> M3, M4 |-> M4]
EmptyStats == OnlineStats(0, Q(0), Q(0), Q(0), Q(0))

\* void OnlineStats::update(double value), value an integer score
Update(s, value) ==
    LET count == s.count + 1
        delta == QSub(Q(value), s.M1)
        delta_n == QDiv(delta, Q(count))
        delta_n2 == QMul(delta_n, delta_n)
        term1 == QMul(QMul(delta, delta_n), Q(count - 1))
    IN OnlineStats(
         count,
         QAdd(s.M1, delta_n),
         QAdd(s.M2, term1),
         QSub(QAdd(s.M3, QMul(QMul(term1, delta_n), Q(count - 2))),
              QMul(QMul(Q(3), delta_n), s.M2)),
         QSub(QAdd(QAdd(s.M4,
                        QMul(QMul(term1, delta_n2), Q(count * count - 3 * count + 3))),
                   QMul(QMul(Q(6), delta_n2), s.M2)),
              QMul(QMul(Q(4), delta_n), s.M3)))

\* n calls of update(value) on an accumulator that holds nothing, or nothing
\* but that value: delta is 0 in every call but the first, term1 is 0 in all
UpdateRun(s, value, n) ==
    OnlineStats(s.count + n, Q(value), s.M2, s.M3, s.M4)

\* the long long subexpressions of combine(), as the mathematical integers
\* and as the 64-bit values of a build whose multiplication wraps
CombineProducts(count, other_count) ==
    LET c == Q(count)
        o == Q(other_count)
        n == Q(count + other_count)
    IN [exact |-> <<QMul(n, n), QMul(QMul(n, n), n), QMul(c, c), QMul(o, o),
                    QAdd(QSub(QMul(c, c), QMul(c, o)), QMul(o, o))>>,
        wrapped |-> <<LLMul(n, n), LLMul(LLMul(n, n), n), LLMul(c, c), LLMul(o, o),
                      LLAdd(LLSub(LLMul(c, c), LLMul(c, o)), LLMul(o, o))>>]

\* a signed 64-bit overflow, undefined behaviour, happens inside combine()
CombineOverflows(this, other) ==
    /\ this.count # 0
    /\ other.count # 0
    /\ CombineProducts(this.count, other.count).exact
         # CombineProducts(this.count, other.count).wrapped

\* void OnlineStats::combine(const OnlineStats& other): the value of *this
\* afterwards.  The operands of * and / are taken left to right as the
\* compiler does: double * long long is a double product, long long * long
\* long a 64-bit one.
Combine(this, other) ==
    IF other.count = 0 THEN this
    ELSE IF this.count = 0 THEN other
    ELSE LET count == Q(this.count)
             other_count == Q(other.count)
             combined_count == Q(this.count + other.count)
             ll == CombineProducts(this.count, other.count).wrapped
             delta == QSub(other.M1, this.M1)
             delta2 == QMul(delta, delta)
             delta3 == QMul(delta, delta2)
             delta4 == QMul(delta2, delta2)
             combined_M1 ==
                 QDiv(QAdd(QMul(count, this.M1), QMul(other_count, other.M1)),
                      combined_count)
             combined_M2 ==
                 QAdd(QAdd(this.M2, other.M2),
                      QDiv(QMul(QMul(delta2, count), other_count), combined_count))
             combined_M3a ==
                 QAdd(QAdd(this.M3, other.M3),
                      QDiv(QMul(QMul(QMul(delta3, count), other_count),
                                LLSub(count, other_count)),
                           ll[1]))
             combined_M3 ==
                 QAdd(combined_M3a,
                      QDiv(QMul(QMul(Q(3), delta),
                                QSub(QMul(count, other.M2),
                                     QMul(other_count, this.M2))),
                           combined_count))
             combined_M4a ==
                 QAdd(QAdd(this.M4, other.M4),
                      QDiv(QMul(QMul(QMul(delta4, count), other_count), ll[5]),
                           ll[2]))
             combined_M4 ==
                 QAdd(combined_M4a,
                      QAdd(QDiv(QMul(QMul(Q(6), delta2),
                                     QAdd(QMul(ll[3], other.M2),
                                          QMul(ll[4], this.M2))),
                                ll[1]),
                           QDiv(QMul(QMul(Q(4), delta),
                                     QSub(QMul(count, other.M3),
                                          QMul(other_count, this.M3))),
                                combined_count)))
         IN OnlineStats(this.count + other.count, combined_M1, combined_M2,
                        combined_M3, combined_M4)

\* What a signed overflow does: the product wraps, or the build traps on it.
OverflowOutcomes == {"wrap", "trap"}

\* The scores fed to an accumulator one by one, how many of them each operand
\* gets, and the length of a run of equal scores fed to an empty accumulator.
SampleValues == {-1, 0, 2}
MaxSamples == 3
RunLength == 2^20

\* The samples of an accumulator are kept as a sequence of <<value, n>>: n
\* consecutive updates with that value.  The two accumulators of a behaviour
\* are both fed one by one or both by runs, which keeps every number of the
\* model within what the checker's integers hold.
Runs(samples) == {i \in DOMAIN samples : samples[i][2] > 1}

\* thisStats.update(value)
UpdateThis(value) ==
    /\ combine_pc = "ready"
    /\ Runs(thisSamples) = {} /\ Runs(otherSamples) = {}
    /\ Len(thisSamples) < MaxSamples
    /\ thisStats' = Update(thisStats, value)
    /\ thisSamples' = Append(thisSamples, <<value, 1>>)
    /\ UNCHANGED <<otherStats, otherSamples, operands, combine_pc, exceptStats>>

\* otherStats.update(value)
UpdateOther(value) ==
    /\ combine_pc = "ready"
    /\ Runs(thisSamples) = {} /\ Runs(otherSamples) = {}
    /\ Len(otherSamples) < MaxSamples
    /\ otherStats' = Update(otherStats, value)
    /\ otherSamples' = Append(otherSamples, <<value, 1>>)
    /\ UNCHANGED <<thisStats, thisSamples, operands, combine_pc, exceptStats>>

\* RunLength times thisStats.update(value), thisStats empty
UpdateRunThis(value) ==
    /\ combine_pc = "ready"
    /\ thisSamples = <<>> /\ Runs(otherSamples) = DOMAIN otherSamples
    /\ thisStats' = UpdateRun(thisStats, value, RunLength)
    /\ thisSamples' = <<<<value, RunLength>>>>
    /\ UNCHANGED <<otherStats, otherSamples, operands, combine_pc, exceptStats>>

\* RunLength times otherStats.update(value), otherStats empty
UpdateRunOther(value) ==
    /\ combine_pc = "ready"
    /\ otherSamples = <<>> /\ Runs(thisSamples) = DOMAIN thisSamples
    /\ otherStats' = UpdateRun(otherStats, value, RunLength)
    /\ otherSamples' = <<<<value, RunLength>>>>
    /\ UNCHANGED <<thisStats, thisSamples, operands, combine_pc, exceptStats>>

\* thisStats.combine(otherStats)
CombineStats ==
    /\ combine_pc = "ready"
    /\ \E outcome \in OverflowOutcomes :
         IF CombineOverflows(thisStats, otherStats) /\ outcome = "trap"
         THEN /\ combine_pc' = "trapped"
              /\ UNCHANGED <<thisStats, thisSamples, operands>>
         ELSE /\ combine_pc' = "returned"
              /\ thisStats' = Combine(thisStats, otherStats)
              /\ thisSamples' = thisSamples \o otherSamples
              /\ operands' = <<thisStats, otherStats>>
    /\ UNCHANGED <<otherStats, otherSamples, exceptStats>>

InitStats ==
    /\ LoadIdle
    /\ ReportIdle
    /\ FlagsIdle
    /\ ConfigIdle
    /\ WorkersIdle
    /\ RoundIdle
    /\ HistIdle
    /\ SimIdle
    /\ thisStats = EmptyStats
    /\ otherStats = EmptyStats
    /\ thisSamples = <<>>
    /\ otherSamples = <<>>
    /\ operands = <<>>
    /\ combine_pc = "ready"

NextStats ==
    \/ \E value \in SampleValues : UpdateThis(value)
    \/ \E value \in SampleValues : UpdateOther(value)
    \/ \E value \in SampleValues : UpdateRunThis(value)
    \/ \E value \in SampleValues : UpdateRunOther(value)
    \/ CombineStats

SpecStats == InitStats /\ [][NextStats]_vars

\* the accumulator obtained by calling update() on an empty one, value by value
RECURSIVE Replay(_)
Replay(samples) ==
    IF samples = <<>> THEN EmptyStats
    ELSE LET last == samples[Len(samples)]
             before == Replay(SubSeq(samples, 1, Len(samples) - 1))
         IN IF last[2] = 1 THEN Update(before, last[1])
            ELSE UpdateRun(before, last[1], last[2])

\* update() can be replayed on the samples in the model's numbers: a run comes
\* first, or after nothing but the same value
Replayable(samples) ==
    \A i \in Runs(samples) : \A j \in 1..(i - 1) : samples[j][1] = samples[i][1]

\* the moments of a sample by their definitions: the mean, and the sum of the
\* k-th powers of the deviations from the mean
RECURSIVE QPow(_, _)
QPow(a, k) == IF k = 0 THEN Q(1) ELSE QMul(a, QPow(a, k - 1))
RECURSIVE QSum(_)
QSum(qs) == IF qs = <<>> THEN Q(0) ELSE QAdd(Head(qs), QSum(Tail(qs)))
CountOf(samples) == SumSeq([i \in DOMAIN samples |-> samples[i][2]])
MeanOf(samples) ==
    IF samples = <<>> THEN Q(0)
    ELSE QDiv(QSum([i \in DOMAIN samples |-> QMul(Q(samples[i][1]), Q(samples[i][2]))]),
              Q(CountOf(samples)))
CentralSum(samples, k) ==
    QSum([i \in DOMAIN samples |->
            QMul(Q(samples[i][2]), QPow(QSub(Q(samples[i][1]), MeanOf(samples)), k))])
MomentsOf(samples) ==
    OnlineStats(CountOf(samples), MeanOf(samples), CentralSum(samples, 2),
                CentralSum(samples, 3), CentralSum(samples, 4))

\* C28: for accumulators whose combined count is at most 10^9, no long long
\* subexpression of thisStats.combine(otherStats) overflows 64 bits (those
\* of update(), count * count and 3 * count, stay below 2^62 for every count
\* the model holds).
C28_NoOverflowUpToBillion ==
    (combine_pc = "ready" /\ thisStats.count + otherStats.count <= 10^9) =>
        ~CombineOverflows(thisStats, otherStats)

\* C5: after A.combine(B), A is the accumulator that replaying A's and then B's
\* updates on an empty accumulator gives, its count is the sum of the counts,
\* its mean and M2..M4 are those of the union of the samples, combining with an
\* empty accumulator changes nothing, and B.combine(A) gives the same values.
C5_CombineIsReplay ==
    combine_pc = "returned" =>
        /\ Replayable(thisSamples) => thisStats = Replay(thisSamples)
        /\ thisStats.count = operands[1].count + operands[2].count
        /\ thisStats = MomentsOf(thisSamples)
        /\ (operands[2].count = 0 => thisStats = operands[1])
        /\ (operands[1].count = 0 => thisStats = operands[2])
        /\ thisStats = Combine(operands[2], operands[1])

(***************************************************************************)
(* MonteCarloSimulator: the histogram and getPercentileFromHistogram.      *)
(* Edges and scores are integers; a returned percentile is an exact        *)
(* number <<n, d, e>>.                                                     *)
(***************************************************************************)
QLe(a, b) == QSub(b, a)[1] >= 0

\* struct Histogram after construction
Histogram == [dividers |-> <<>>, bins |-> <<>>, underflow |-> 0, overflow |-> 0]

\* a check that lets a first edge below 1.0 through
CustomBinsThrowOnlyEmpty(dividers) == dividers = <<>>

\* setCustomHistogramBins(dividers) throws std::invalid_argument
CustomBinsThrow(dividers) == dividers = <<>> \/ dividers[1] < 1

\* m_histogram after setCustomHistogramBins(dividers) returns
SetCustomHistogramBins(h, dividers) ==
    [h EXCEPT !.dividers = <<0, 1>> \o dividers,
              !.bins = [i \in 1..(Len(dividers) + 1) |-> 0]]

\* for (double val = from; val <= to; val += step) dividers.push_back(val)
Steps(from, to, step) ==
    [i \in 1..((to - from) \div step + 1) |-> from + (i - 1) * step]

\* the dividers setProgressiveHistogramBins() passes on
ProgressiveDividers ==
    Steps(5, 100, 5) \o Steps(110, 500, 10) \o Steps(600, 2000, 100)
        \o Steps(2500, 20000, 500)

\* std::upper_bound(dividers.begin(), dividers.end(), value) - dividers.begin(),
\* the binary search of the library
RECURSIVE UpperBound(_, _, _, _)
UpperBound(dividers, value, first, len) ==
    IF len <= 0 THEN first
    ELSE LET half == len \div 2
             middle == first + half
         IN IF value < dividers[middle + 1]
            THEN UpperBound(dividers, value, first, half)
            ELSE UpperBound(dividers, value, middle + 1, len - half - 1)

\* a histogram update that loses the scores at or above the last edge
ObserveNoOverflow(h, total_score) ==
    IF total_score < 0 THEN [h EXCEPT !.underflow = @ + 1]
    ELSE IF total_score >= h.dividers[Len(h.dividers)] THEN h
    ELSE LET bin_index == UpperBound(h.dividers, total_score, 0, Len(h.dividers)) - 1
         IN [h EXCEPT !.bins[bin_index + 1] = @ + 1]

\* the histogram update of one total score
Observe(h, total_score) ==
    IF total_score < 0 THEN [h EXCEPT !.underflow = @ + 1]
    ELSE IF total_score >= h.dividers[Len(h.dividers)]
         THEN [h EXCEPT !.overflow = @ + 1]
    ELSE LET bin_index == UpperBound(h.dividers, total_score, 0, Len(h.dividers)) - 1
         IN [h EXCEPT !.bins[bin_index + 1] = @ + 1]

\* The percentiles asked for, and those whose quotient by 100.0 is not a
\* double: there count * (percentile / 100.0) can fall just below the integer
\* it stands for, and the conversion to long long then gives one less.
Percentiles == {0, 25, 50, 90, 95, 99, 100}
InexactPercentiles == {90, 95, 99}

\* a target_count that is one short for every percentile
TargetCountOneShort(count, percentile, below) ==
    (count * percentile) \div 100 - 1

\* long long target_count = m_stats.count * (percentile / 100.0)
TargetCount(count, percentile, below) ==
    IF below /\ count * percentile > 0 /\ (count * percentile) % 100 = 0
    THEN (count * percentile) \div 100 - 1
    ELSE (count * percentile) \div 100

\* the for loop of getPercentileFromHistogram, from bin i (0-based) on
RECURSIVE ScanBins(_, _, _, _)
ScanBins(h, target_count, i, count_before) ==
    IF i >= Len(h.bins) THEN Q(h.dividers[Len(h.dividers)])
    ELSE LET current_count == count_before + h.bins[i + 1]
             prev_count == current_count - h.bins[i + 1]
             fraction == IF h.bins[i + 1] > 0
                         THEN QDiv(Q(target_count - prev_count), Q(h.bins[i + 1]))
                         ELSE Q(0)
         IN IF current_count >= target_count
            THEN QAdd(Q(h.dividers[i + 1]),
                      QMul(fraction, Q(h.dividers[i + 2] - h.dividers[i + 1])))
            ELSE ScanBins(h, target_count, i + 1, current_count)

\* getPercentileFromHistogram interpolating down from the upper edge of the bin
PercentileFromUpperEdge(count, h, target_count) ==
    IF count = 0 THEN Q(0)
    ELSE IF target_count <= h.underflow THEN Q(h.dividers[1])
    ELSE LET i == CHOOSE j \in 0..Len(h.bins) :
                    /\ j < Len(h.bins) =>
                         h.underflow + SumSeq(SubSeq(h.bins, 1, j + 1)) >= target_count
                    /\ \A l \in 0..(j - 1) :
                         h.underflow + SumSeq(SubSeq(h.bins, 1, l + 1)) < target_count
         IN IF i = Len(h.bins) THEN Q(h.dividers[Len(h.dividers)])
            ELSE QSub(Q(h.dividers[i + 2]),
                      QMul(QDiv(Q(target_count - h.underflow
                                    - SumSeq(SubSeq(h.bins, 1, i))),
                                Q(h.bins[i + 1])),
                           Q(h.dividers[i + 2] - h.dividers[i + 1])))

\* double getPercentileFromHistogram(double percentile) const, given the
\* target_count its first statement computes
GetPercentileFromHistogram(count, h, target_count) ==
    IF count = 0 THEN Q(0)
    ELSE IF target_count <= h.underflow THEN Q(h.dividers[1])
    ELSE ScanBins(h, target_count, 0, h.underflow)

\* The histograms getPercentileFromHistogram is asked about: the custom edges
\* configured and the largest count of one bucket.
CustomDividers == {<<3>>, <<2, 6>>}
MaxBinCount == 2

Histograms ==
    { [dividers |-> <<0, 1>> \o d, bins |-> b, underflow |-> u, overflow |-> o] :
        d \in CustomDividers, u \in 0..MaxBinCount, o \in 0..MaxBinCount,
        b \in UNION {[1..(Len(dd) + 1) -> 0..MaxBinCount] : dd \in CustomDividers} }

RECURSIVE SumRange(_, _, _)
SumRange(s, first, last) ==
    IF first > last THEN 0
    ELSE IF first = last THEN s[first]
    ELSE LET middle == (first + last) \div 2
         IN SumRange(s, first, middle) + SumRange(s, middle + 1, last)

Observations(h) == h.underflow + SumRange(h.bins, 1, Len(h.bins)) + h.overflow

InitHist ==
    /\ LoadIdle
    /\ ReportIdle
    /\ FlagsIdle
    /\ ConfigIdle
    /\ WorkersIdle
    /\ RoundIdle
    /\ StatsIdle
    /\ SimIdle
    /\ m_histogram \in {h \in Histograms : Len(h.bins) = Len(h.dividers) - 1}
    /\ m_histogram_configured = TRUE
    /\ m_stats = [count |-> Observations(m_histogram)]
    /\ percentile_calls = <<>>

\* getPercentileFromHistogram(percentile); percentile_calls keeps the argument,
\* how the product was rounded, and the value returned
PercentileCall(percentile, below) ==
    /\ below => percentile \in InexactPercentiles
    /\ \A i \in DOMAIN percentile_calls :
         percentile_calls[i].percentile = percentile
             => percentile_calls[i].below = below
    /\ LET this == [percentile |-> percentile, below |-> below,
                    value |-> GetPercentileFromHistogram(
                                  m_stats.count, m_histogram,
                                  TargetCount(m_stats.count, percentile, below))]
       IN percentile_calls' = IF Len(percentile_calls) < 2
                              THEN Append(percentile_calls, this)
                              ELSE <<percentile_calls[2], this>>
    /\ UNCHANGED <<histVars, exceptHist>>

NextHist == \E percentile \in Percentiles, below \in BOOLEAN :
                PercentileCall(percentile, below)

SpecHist == InitHist /\ [][NextHist]_vars

\* the share of the observations below the first edge is at least percentile / 100
WithinUnderflow(percentile) ==
    percentile * m_stats.count <= 100 * m_histogram.underflow

\* C7: getPercentileFromHistogram is non-decreasing in its argument over
\* [0, 100], and returns the first edge whenever the percentile is at most the
\* underflow fraction of the observations.
C7_PercentileMonotone ==
    \A i, j \in DOMAIN percentile_calls :
        /\ percentile_calls[i].percentile <= percentile_calls[j].percentile
             => QLe(percentile_calls[i].value, percentile_calls[j].value)
        /\ (m_stats.count > 0 /\ WithinUnderflow(percentile_calls[i].percentile))
             => percentile_calls[i].value = Q(m_histogram.dividers[1])

\* a call answered with the first edge because of the underflow, then a call
\* with a larger percentile answered from inside a bin
C7_Witness ==
    /\ Len(percentile_calls) = 2
    /\ m_histogram.underflow > 0
    /\ percentile_calls[1].percentile > 0
    /\ WithinUnderflow(percentile_calls[1].percentile)
    /\ percentile_calls[1].percentile < percentile_calls[2].percentile
    /\ \A i \in DOMAIN m_histogram.dividers :
         percentile_calls[2].value # Q(m_histogram.dividers[i])

\* the highest bin that holds an observation, 0 when every bin is empty
HighestFilled(bins) ==
    IF \A i \in DOMAIN bins : bins[i] = 0 THEN 0
    ELSE CHOOSE i \in DOMAIN bins : bins[i] > 0 /\ \A j \in DOMAIN bins : j > i => bins[j] = 0

\* C8 as stated: with at least one observation, getPercentileFromHistogram(100)
\* returns the last edge, whatever buckets are empty.
C8_Percentile100IsLastEdge ==
    \A i \in DOMAIN percentile_calls :
        (m_stats.count > 0 /\ percentile_calls[i].percentile = 100)
            => percentile_calls[i].value
                 = Q(m_histogram.dividers[Len(m_histogram.dividers)])

\* C8 amended: with at least one observation, getPercentileFromHistogram(100)
\* returns the last edge if the overflow bucket is not empty, else the upper
\* edge of the highest bin that is not empty, else (all observations below the
\* first edge) the first edge.
C8_Percentile100IsHighestFilledEdge ==
    \A i \in DOMAIN percentile_calls :
        (m_stats.count > 0 /\ percentile_calls[i].percentile = 100)
            => percentile_calls[i].value
                 = IF m_histogram.overflow > 0
                   THEN Q(m_histogram.dividers[Len(m_histogram.dividers)])
                   ELSE Q(m_histogram.dividers[HighestFilled(m_histogram.bins) + 1])

\* percentile 100 asked of a histogram whose overflow bucket and top bin are
\* empty and whose lower bins are not
C8_Witness ==
    /\ percentile_calls # <<>>
    /\ percentile_calls[Len(percentile_calls)].percentile = 100
    /\ m_histogram.overflow = 0
    /\ m_histogram.bins[Len(m_histogram.bins)] = 0
    /\ HighestFilled(m_histogram.bins) > 0
    /\ m_histogram.underflow > 0

(***************************************************************************)
(* MonteCarloSimulator::run and the four runners.  A round is a call of    *)
(* Game::simulateGameRound whose GameResult is an input of the model.  The *)
(* integer members and the integer-valued score totals are kept; of the    *)
(* OnlineStats members only the count.                                     *)
(***************************************************************************)
MaxOf(a, b) == IF b > a THEN b ELSE a

\* the members run() resets before it dispatches
ResetAggregates ==
    [m_total_fg_runs |-> 0, m_total_fg_picks |-> 0, m_max_fg_length |-> 0,
     m_fg_triggered_count |-> 0, m_nonzero_bg_count |-> 0,
     m_nonzero_fg_sessions_count |-> 0, m_nonzero_fg_picks_count |-> 0,
     m_nonzero_total_count |-> 0, m_max_bg_multiplier |-> 1,
     m_max_fg_multiplier |-> 1,
     m_total_bg_levels |-> 0, m_bg_nonzero_levels_sum |-> 0,
     m_bg_nonzero_levels_count |-> 0, m_max_bg_level |-> 0,
     m_total_fg_levels |-> 0, m_fg_nonzero_levels_sum |-> 0,
     m_fg_nonzero_levels_count |-> 0, m_max_fg_level |-> 0,
     m_total_run_levels |-> 0, m_run_nonzero_levels_sum |-> 0,
     m_run_nonzero_levels_count |-> 0, m_max_run_level |-> 0,
     m_total_bg_score |-> 0, m_total_fg_score |-> 0]

\* locals of the loop body, computed from result.fg_levels and result.bg_levels
RECURSIVE MaxSeq(_, _)
MaxSeq(s, start) == IF s = <<>> THEN start ELSE MaxSeq(Tail(s), MaxOf(start, Head(s)))
NotOne(s) == SelectSeq(s, LAMBDA level : level # 1)
RunMaxFgLevel(r) == MaxSeq(r.fg_levels, 0)
RunTotalLevels(r) == r.bg_levels + SumSeq(r.fg_levels)
RunNonzeroSum(r) ==
    (IF r.bg_levels # 1 THEN r.bg_levels ELSE 0) + SumSeq(NotOne(r.fg_levels))
RunNonzeroCount(r) ==
    (IF r.bg_levels # 1 THEN 1 ELSE 0) + Len(NotOne(r.fg_levels))
RunMaxLevel(r) == MaxSeq(r.fg_levels, r.bg_levels)
Flag(b) == IF b THEN 1 ELSE 0

\* UPDATE 4 to UPDATE 8 of the single-threaded loop body, on the members
FoldRound(a, r) ==
    LET total_score == r.bg_score + r.fg_score
    IN [a EXCEPT
          !.m_total_bg_score = @ + r.bg_score,
          !.m_total_fg_score = @ + r.fg_score,
          !.m_nonzero_bg_count = @ + Flag(r.bg_score # 0),
          !.m_nonzero_fg_sessions_count = @ + Flag(r.fg_score # 0),
          !.m_nonzero_total_count = @ + Flag(total_score # 0),
          !.m_nonzero_fg_picks_count = @ + r.fg_nonzero_picks,
          !.m_total_fg_picks = @ + (IF r.fg_was_triggered THEN r.fg_run_length ELSE 0),
          !.m_fg_triggered_count = @ + Flag(r.fg_was_triggered),
          !.m_total_fg_runs = @ + Flag(r.fg_was_triggered /\ r.fg_run_length > 0),
          !.m_max_fg_length =
              IF r.fg_was_triggered /\ r.fg_run_length > 0
              THEN MaxOf(@, r.fg_run_length) ELSE @,
          !.m_max_bg_multiplier = MaxOf(@, r.max_bg_multiplier),
          !.m_max_fg_multiplier = MaxOf(@, r.max_fg_multiplier),
          !.m_total_bg_levels = @ + r.bg_levels,
          !.m_bg_nonzero_levels_sum = @ + (IF r.bg_levels # 1 THEN r.bg_levels ELSE 0),
          !.m_bg_nonzero_levels_count = @ + Flag(r.bg_levels # 1),
          !.m_max_bg_level = MaxOf(@, r.bg_levels),
          !.m_total_fg_levels = @ + SumSeq(r.fg_levels),
          !.m_fg_nonzero_levels_sum = @ + SumSeq(NotOne(r.fg_levels)),
          !.m_fg_nonzero_levels_count = @ + Len(NotOne(r.fg_levels)),
          !.m_max_fg_level = MaxOf(@, RunMaxFgLevel(r)),
          !.m_total_run_levels = @ + RunTotalLevels(r),
          !.m_run_nonzero_levels_sum = @ + RunNonzeroSum(r),
          !.m_run_nonzero_levels_count = @ + RunNonzeroCount(r),
          !.m_max_run_level = MaxOf(@, RunMaxLevel(r))]

\* What a thread of runEfficientMode_Parallel owns: its copies of the
\* reduction variables (0 at the start), its slots of the thread_ vectors
\* after the master's resize, the count of thread_stats[thread_id].
ThreadPrivate(h) ==
    [total_fg_runs_p |-> 0, total_fg_picks_p |-> 0, fg_triggered_count_p |-> 0,
     total_bg_score_p |-> 0, total_fg_score_p |-> 0,
     nonzero_bg_p |-> 0, nonzero_fg_sessions_p |-> 0, nonzero_fg_picks_p |-> 0,
     nonzero_total_p |-> 0,
     total_bg_levels_p |-> 0, bg_nonzero_levels_sum_p |-> 0,
     bg_nonzero_levels_count_p |-> 0,
     total_fg_levels_p |-> 0, fg_nonzero_levels_sum_p |-> 0,
     fg_nonzero_levels_count_p |-> 0,
     total_run_levels_p |-> 0, run_nonzero_levels_sum_p |-> 0,
     run_nonzero_levels_count_p |-> 0,
     thread_max_fg_lengths |-> 0, thread_max_bg_multipliers |-> 1,
     thread_max_fg_multipliers |-> 1, thread_max_bg_levels |-> 0,
     thread_max_fg_levels |-> 0, thread_max_run_levels |-> 0,
     thread_stats |-> [count |-> 0],
     thread_histograms |->
         [bins |-> [i \in 1..(Len(h.dividers) - 1) |-> 0],
          underflow |-> 0, overflow |-> 0]]

\* the histogram update of a thread: the edges are m_histogram's, the counts
\* the thread's
ObserveThread(th, dividers, total_score) ==
    LET seen == Observe([dividers |-> dividers, bins |-> th.bins,
                         underflow |-> th.underflow, overflow |-> th.overflow],
                        total_score)
    IN [bins |-> seen.bins, underflow |-> seen.underflow, overflow |-> seen.overflow]

\* UPDATE 1 to UPDATE 9 of the loop body of runEfficientMode_Parallel, on what
\* the thread owns
ThreadRound(t, r, dividers) ==
    LET total_score == r.bg_score + r.fg_score
    IN [t EXCEPT
          !.thread_stats.count = @ + 1,
          !.total_bg_score_p = @ + r.bg_score,
          !.total_fg_score_p = @ + r.fg_score,
          !.nonzero_bg_p = @ + Flag(r.bg_score # 0),
          !.nonzero_fg_sessions_p = @ + Flag(r.fg_score # 0),
          !.nonzero_total_p = @ + Flag(total_score # 0),
          !.nonzero_fg_picks_p = @ + r.fg_nonzero_picks,
          !.total_fg_picks_p = @ + (IF r.fg_was_triggered THEN r.fg_run_length ELSE 0),
          !.fg_triggered_count_p = @ + Flag(r.fg_was_triggered),
          !.total_fg_runs_p = @ + Flag(r.fg_was_triggered /\ r.fg_run_length > 0),
          !.thread_max_fg_lengths =
              IF r.fg_was_triggered /\ r.fg_run_length > 0
              THEN MaxOf(@, r.fg_run_length) ELSE @,
          !.thread_max_bg_multipliers = MaxOf(@, r.max_bg_multiplier),
          !.thread_max_fg_multipliers = MaxOf(@, r.max_fg_multiplier),
          !.total_bg_levels_p = @ + r.bg_levels,
          !.bg_nonzero_levels_sum_p = @ + (IF r.bg_levels # 1 THEN r.bg_levels ELSE 0),
          !.bg_nonzero_levels_count_p = @ + Flag(r.bg_levels # 1),
          !.thread_max_bg_levels = MaxOf(@, r.bg_levels),
          !.total_fg_levels_p = @ + SumSeq(r.fg_levels),
          !.fg_nonzero_levels_sum_p = @ + SumSeq(NotOne(r.fg_levels)),
          !.fg_nonzero_levels_count_p = @ + Len(NotOne(r.fg_levels)),
          !.thread_max_fg_levels = MaxOf(@, RunMaxFgLevel(r)),
          !.total_run_levels_p = @ + RunTotalLevels(r),
          !.run_nonzero_levels_sum_p = @ + RunNonzeroSum(r),
          !.run_nonzero_levels_count_p = @ + RunNonzeroCount(r),
          !.thread_max_run_levels = MaxOf(@, RunMaxLevel(r)),
          !.thread_histograms = ObserveThread(@, dividers, total_score)]

RECURSIVE SumOver(_, _, _)
RECURSIVE MaxOver(_, _, _, _)

\* a reduction that keeps the copy of one thread only
OneThreadOnly(ts, T, field) ==
    IF T = {} THEN 0 ELSE ts[CHOOSE x \in T : TRUE][field]

\* the value of a reduction(+) variable after the parallel region: the sum of
\* the copies of the threads T of ts
SumOver(ts, T, field) ==
    IF T = {} THEN 0
    ELSE LET t == CHOOSE x \in T : TRUE
         IN ts[t][field] + SumOver(ts, T \ {t}, field)

\* the largest value of a thread_max vector
MaxOver(ts, T, field, start) ==
    IF T = {} THEN start
    ELSE LET t == CHOOSE x \in T : TRUE
         IN MaxOver(ts, T \ {t}, field, MaxOf(start, ts[t][field]))

\* the members after the reduction of runEfficientMode_Parallel
ReduceAggregates(a, ts) ==
    LET T == DOMAIN ts
    IN [a EXCEPT
          !.m_fg_triggered_count = SumOver(ts, T, "fg_triggered_count_p"),
          !.m_total_fg_runs = SumOver(ts, T, "total_fg_runs_p"),
          !.m_total_fg_picks = SumOver(ts, T, "total_fg_picks_p"),
          !.m_total_bg_score = SumOver(ts, T, "total_bg_score_p"),
          !.m_total_fg_score = SumOver(ts, T, "total_fg_score_p"),
          !.m_nonzero_bg_count = SumOver(ts, T, "nonzero_bg_p"),
          !.m_nonzero_fg_sessions_count = SumOver(ts, T, "nonzero_fg_sessions_p"),
          !.m_nonzero_fg_picks_count = SumOver(ts, T, "nonzero_fg_picks_p"),
          !.m_nonzero_total_count = SumOver(ts, T, "nonzero_total_p"),
          !.m_max_fg_length = MaxOver(ts, T, "thread_max_fg_lengths", @),
          !.m_max_bg_multiplier = MaxOver(ts, T, "thread_max_bg_multipliers", @),
          !.m_max_fg_multiplier = MaxOver(ts, T, "thread_max_fg_multipliers", @),
          !.m_total_bg_levels = SumOver(ts, T, "total_bg_levels_p"),
          !.m_bg_nonzero_levels_sum = SumOver(ts, T, "bg_nonzero_levels_sum_p"),
          !.m_bg_nonzero_levels_count = SumOver(ts, T, "bg_nonzero_levels_count_p"),
          !.m_total_fg_levels = SumOver(ts, T, "total_fg_levels_p"),
          !.m_fg_nonzero_levels_sum = SumOver(ts, T, "fg_nonzero_levels_sum_p"),
          !.m_fg_nonzero_levels_count = SumOver(ts, T, "fg_nonzero_levels_count_p"),
          !.m_total_run_levels = SumOver(ts, T, "total_run_levels_p"),
          !.m_run_nonzero_levels_sum = SumOver(ts, T, "run_nonzero_levels_sum_p"),
          !.m_run_nonzero_levels_count = SumOver(ts, T, "run_nonzero_levels_count_p"),
          !.m_max_bg_level = MaxOver(ts, T, "thread_max_bg_levels", @),
          !.m_max_fg_level = MaxOver(ts, T, "thread_max_fg_levels", @),
          !.m_max_run_level = MaxOver(ts, T, "thread_max_run_levels", @)]

\* m_final_online_stats.count after thread_stats[0] is copied and the others
\* are combined into it
ReduceCount(ts) ==
    LET T == DOMAIN ts
    IN SumOver([t \in T |-> [count |-> ts[t].thread_stats.count]], T, "count")

\* m_histogram after "Combine histograms"
RECURSIVE ReduceHistogram(_, _, _)
ReduceHistogram(h, ts, T) ==
    IF T = {} THEN h
    ELSE LET t == CHOOSE x \in T : TRUE
             th == ts[t].thread_histograms
         IN ReduceHistogram(
                [h EXCEPT !.bins = [j \in DOMAIN h.bins |-> h.bins[j] + th.bins[j]],
                          !.underflow = @ + th.underflow,
                          !.overflow = @ + th.overflow],
                ts, T \ {t})

\* the slots of the per-round vectors of runAccurateMode_Parallel as constructed
PerRoundDefault ==
    [bg_scores |-> 0, fg_scores |-> 0, fg_run_lengths |-> 0,
     fg_triggered |-> FALSE, fg_nonzero_picks |-> 0,
     bg_multipliers |-> 1, fg_multipliers |-> 1, bg_levels |-> 0,
     total_fg_levels_per_round |-> 0, fg_nonzero_levels_count_per_round |-> 0]

\* the slots of index idx after the loop body of runAccurateMode_Parallel
PerRoundOf(r) ==
    [bg_scores |-> r.bg_score, fg_scores |-> r.fg_score,
     fg_run_lengths |-> r.fg_run_length, fg_triggered |-> r.fg_was_triggered,
     fg_nonzero_picks |-> r.fg_nonzero_picks,
     bg_multipliers |-> r.max_bg_multiplier, fg_multipliers |-> r.max_fg_multiplier,
     bg_levels |-> r.bg_levels,
     total_fg_levels_per_round |-> SumSeq(r.fg_levels),
     fg_nonzero_levels_count_per_round |-> Len(NotOne(r.fg_levels))]

\* the thread-local maxima of runAccurateMode_Parallel after one round
ThreadRoundAccurate(t, r) ==
    [t EXCEPT
       !.thread_max_bg_levels = MaxOf(@, r.bg_levels),
       !.thread_max_fg_levels = MaxOf(@, RunMaxFgLevel(r)),
       !.thread_max_run_levels = MaxOf(@, MaxOf(RunMaxFgLevel(r), r.bg_levels))]

SumField(pr, field) == SumSeq([i \in DOMAIN pr |-> pr[i][field]])
MaxField(pr, field, start) == MaxSeq([i \in DOMAIN pr |-> pr[i][field]], start)

\* the members after "Aggregate statistics from individual results" of
\* runAccurateMode_Parallel; stats_count is m_stats.count at that point
AggregateAccurate(a, pr, results, ts, stats_count) ==
    LET total_fg_picks_val == a.m_total_fg_picks + SumField(pr, "fg_run_lengths")
        fg_count == a.m_fg_nonzero_levels_count
                      + SumField(pr, "fg_nonzero_levels_count_per_round")
        total_fg == a.m_total_fg_levels + SumField(pr, "total_fg_levels_per_round")
        run_total == a.m_total_run_levels + SumField(pr, "bg_levels")
                       + SumField(pr, "total_fg_levels_per_round")
        run_count == a.m_run_nonzero_levels_count
                       + Len(SelectSeq(pr, LAMBDA x : x.bg_levels # 1))
                       + SumField(pr, "fg_nonzero_levels_count_per_round")
        bg_not_one == SelectSeq(pr, LAMBDA x : x.bg_levels # 1)
    IN [a EXCEPT
          !.m_total_bg_score = @ + SumField(pr, "bg_scores"),
          !.m_total_fg_score = @ + SumField(pr, "fg_scores"),
          !.m_total_fg_picks = total_fg_picks_val,
          !.m_total_fg_runs = @ + Len(SelectSeq(pr, LAMBDA x : x.fg_run_lengths > 0)),
          !.m_max_fg_length = MaxField(pr, "fg_run_lengths", @),
          !.m_fg_triggered_count = @ + Len(SelectSeq(pr, LAMBDA x : x.fg_triggered)),
          !.m_nonzero_bg_count = @ + Len(SelectSeq(pr, LAMBDA x : x.bg_scores # 0)),
          !.m_nonzero_fg_sessions_count = @ + Len(SelectSeq(pr, LAMBDA x : x.fg_scores # 0)),
          !.m_nonzero_total_count = @ + Len(SelectSeq(results, LAMBDA x : x # 0)),
          !.m_nonzero_fg_picks_count = @ + SumField(pr, "fg_nonzero_picks"),
          !.m_max_bg_multiplier = MaxField(pr, "bg_multipliers", @),
          !.m_max_fg_multiplier = MaxField(pr, "fg_multipliers", @),
          !.m_total_bg_levels = @ + SumField(pr, "bg_levels"),
          !.m_bg_nonzero_levels_sum = @ + SumField(bg_not_one, "bg_levels"),
          !.m_bg_nonzero_levels_count = @ + Len(bg_not_one),
          !.m_max_bg_level = MaxOver(ts, DOMAIN ts, "thread_max_bg_levels", @),
          !.m_total_fg_levels = total_fg,
          !.m_fg_nonzero_levels_count = fg_count,
          !.m_max_fg_level = MaxOver(ts, DOMAIN ts, "thread_max_fg_levels", @),
          !.m_fg_nonzero_levels_sum = total_fg - (total_fg_picks_val - fg_count),
          !.m_total_run_levels = run_total,
          !.m_run_nonzero_levels_count = run_count,
          !.m_max_run_level = MaxOver(ts, DOMAIN ts, "thread_max_run_levels", @),
          !.m_run_nonzero_levels_sum =
              run_total - ((stats_count + total_fg_picks_val) - run_count)]

\* std::sort(m_results.begin(), m_results.end())
RECURSIVE Insert(_, _)
Insert(sorted, x) ==
    IF sorted = <<>> THEN <<x>>
    ELSE IF x <= Head(sorted) THEN <<x>> \o sorted
    ELSE <<Head(sorted)>> \o Insert(Tail(sorted), x)
RECURSIVE Sort(_)
Sort(s) == IF s = <<>> THEN <<>> ELSE Insert(Sort(Tail(s)), Head(s))

\* a histogram whose counts are left as they are
Kept(h) == h

\* m_histogram with every count at 0
Cleared(h) ==
    [h EXCEPT !.bins = [i \in 1..(Len(h.dividers) - 1) |-> 0],
              !.underflow = 0, !.overflow = 0]

\* m_histogram after the binning loop over the values
RECURSIVE ObserveAll(_, _)
ObserveAll(h, values) ==
    IF values = <<>> THEN h ELSE ObserveAll(Observe(h, Head(values)), Tail(values))

\* long long division, which truncates toward zero
Quot(a, b) == IF a >= 0 THEN a \div b ELSE -((-a) \div b)

\* effective_simulations of run(numSimulations, ...)
EffectiveSimulations(numSimulations, mode) ==
    IF mode = "FG_ONLY"
    THEN IF Quot(numSimulations, 10) = 0 /\ numSimulations > 0
         THEN 1 ELSE Quot(numSimulations, 10)
    ELSE numSimulations

\* numRounds as it would be if the rounds of a batch were never raised to 1
EffectiveRoundsNotRaised(k, m, mode) ==
    IF mode = "FG_ONLY" THEN Quot(m, 10) ELSE m

\* numRounds of run(k, m, ...)
EffectiveRounds(k, m, mode) ==
    IF mode = "FG_ONLY"
    THEN IF Quot(m, 10) = 0 /\ k * m > 0 THEN 1 ELSE Quot(m, 10)
    ELSE m

(***************************************************************************)
(* The simulator as a state machine.  spc is "idle" after construction or  *)
(* a histogram configuration, "single" or "parallel" while the loops of a  *)
(* runner execute, "bootstrap" inside the parallel region of               *)
(* analyzeAccurateResults(k, m), "done" when run() has returned and        *)
(* "threw" when it has thrown.                                             *)
(***************************************************************************)
\* Bounds: threads of a parallel region, rounds a run may execute, calls of
\* run() in a behaviour.
NumThreads == 2
MaxRounds == 3
MaxRuns == 1

\* Arguments of run(): k, m and numSimulations.
BatchCounts == {-2, 0, 1, 2}
RoundCounts == {-1, 1, 2, 5, 20}
SimulationCounts == {-25, -1, 0, 1, 3, 10, 25}
MemoryModes == {"EFFICIENT", "ACCURATE"}

Threads == 0..(NumThreads - 1)

\* GameResults a round can return in each simulation mode; the values of the
\* items come from the configuration file, which may hold a negative one
RoundResults(mode) ==
    IF mode = "BG_ONLY"
    THEN {GameResult(0, 0, 0, FALSE, 0, 1, 1, 1, <<>>),
          GameResult(2, 0, 0, FALSE, 0, 2, 1, 2, <<>>),
          GameResult(-1, 0, 0, FALSE, 0, 1, 1, 0, <<>>)}
    ELSE IF mode = "FG_ONLY"
    THEN {GameResult(0, 30000, 1, TRUE, 1, 1, 10, 0, <<4>>),
          GameResult(0, 0, 2, TRUE, 0, 1, 2, 0, <<1, 1>>)}
    ELSE {GameResult(0, 0, 0, FALSE, 0, 1, 1, 1, <<>>),
          GameResult(-1, 0, 0, FALSE, 0, 1, 1, 0, <<>>),
          GameResult(5, 600, 2, TRUE, 1, 3, 6, 3, <<1, 3>>),
          GameResult(0, 30000, 1, TRUE, 1, 1, 10, 0, <<4>>)}

\* every GameResult a round can return, and the results of the rounds of one
\* iteration of a loop
AllRoundResults == UNION {RoundResults(mode) : mode \in SimulationModes}
IterationResults == UNION {[1..n -> AllRoundResults] : n \in 0..MaxRounds}

Resting == {"idle", "done", "threw"}

\* the rounds the loops of a runner execute
LoopRounds(iterations, rounds) ==
    IF iterations > 0 /\ rounds > 0 THEN iterations * rounds ELSE 0

InitSim ==
    /\ LoadIdle
    /\ ReportIdle
    /\ FlagsIdle
    /\ ConfigIdle
    /\ WorkersIdle
    /\ RoundIdle
    /\ StatsIdle
    /\ percentile_calls = <<>>
    /\ m_histogram = Histogram
    /\ m_histogram_configured = FALSE
    /\ m_stats = [count |-> 0]
    /\ spc = "idle"
    /\ call = <<>>
    /\ batch = 0
    /\ round = 0
    /\ next_batch = 0
    /\ threads = <<>>
    /\ tpc = <<>>
    /\ m_agg = ResetAggregates
    /\ m_final_online_stats = [count |-> 0]
    /\ m_results = <<>>
    /\ per_round = <<>>
    /\ m_rng = 0
    /\ simulated = <<>>
    /\ runs = 0

\* setCustomHistogramBins(dividers)
ConfigureHistogram(dividers) ==
    /\ spc \in Resting
    /\ IF CustomBinsThrow(dividers)
       THEN UNCHANGED <<m_histogram, m_histogram_configured, spc>>
       ELSE /\ m_histogram' = SetCustomHistogramBins(m_histogram, dividers)
            /\ m_histogram_configured' = TRUE
            /\ spc' = "idle"
    /\ UNCHANGED <<m_stats, call, batch, round, next_batch, threads, tpc, m_agg,
                   m_final_online_stats, m_results, per_round, m_rng, simulated,
                   runs, exceptSim>>

\* the threads at the start of a parallel region
Unseeded == [t \in Threads |-> [pc |-> "seed", seen |-> 0, seed |-> 0]]

\* run(): resetState(), the resets, the default histogram; then, unless thrown
\* says that the argument check threw, the prologue of the runner chosen by
\* mode and useParallel.  c holds the arguments, c.iterations and c.rounds the
\* bounds of the outer and the inner loop, c.total the size the Accurate
\* runners reserve.
Dispatch(c, thrown) ==
    LET reset == IF m_histogram_configured THEN Cleared(m_histogram) ELSE m_histogram
        h == IF m_histogram_configured THEN reset
             ELSE SetCustomHistogramBins(reset, ProgressiveDividers)
        length_error == c.mem_mode = "ACCURATE" /\ c.total < 0
    IN /\ runs' = runs + 1
       /\ call' = c
       /\ m_histogram_configured' = TRUE
       /\ m_stats' = [count |-> 0]
       /\ m_agg' = ResetAggregates
       /\ m_final_online_stats' = [count |-> 0]
       /\ simulated' = <<>>
       /\ batch' = 0
       /\ round' = 0
       /\ next_batch' = 0
       /\ m_rng' = m_rng
       /\ m_histogram' = IF ~thrown /\ c.mem_mode = "EFFICIENT" /\ ~c.useParallel
                         THEN Cleared(h) ELSE h
       /\ spc' = IF thrown \/ length_error THEN "threw"
                 ELSE IF c.useParallel THEN "parallel" ELSE "single"
       /\ IF ~thrown /\ ~length_error /\ c.useParallel
          THEN /\ threads' = [t \in Threads |-> ThreadPrivate(h)]
               /\ tpc' = Unseeded
          ELSE /\ threads' = <<>>
               /\ tpc' = <<>>
       /\ IF ~thrown /\ ~length_error /\ c.useParallel /\ c.mem_mode = "ACCURATE"
          THEN /\ m_results' = [i \in 1..c.total |-> 0]
               /\ per_round' = [i \in 1..c.total |-> PerRoundDefault]
          ELSE /\ m_results' = <<>>
               /\ per_round' = <<>>

\* run(numSimulations, sim_mode, mem_mode, useParallel, second_chance_prob)
Run(numSimulations, mode, mem_mode, useParallel) ==
    LET effective_simulations == EffectiveSimulations(numSimulations, mode)
    IN /\ spc \in Resting
       /\ runs < MaxRuns
       /\ LoopRounds(effective_simulations, 1) <= MaxRounds
       /\ Dispatch([overload |-> "numSimulations", k |-> 0, m |-> 0,
                    numSimulations |-> numSimulations, sim_mode |-> mode,
                    mem_mode |-> mem_mode, useParallel |-> useParallel,
                    iterations |-> effective_simulations, rounds |-> 1,
                    total |-> effective_simulations], FALSE)
       /\ UNCHANGED exceptSim

\* k * m does not fit in a long long: signed overflow, undefined behaviour
ProductOverflows(k, m) == QMul(k, m) # LLMul(k, m)

\* numSimulations = k * m; if (numSimulations <= 0) throw std::invalid_argument
ArgumentsRejected(k, m) == LLMul(k, m)[1] <= 0

\* run(k, m, sim_mode, mode, useParallel, second_chance_prob)
RunBatches(k, m, mode, mem_mode, useParallel) ==
    LET numRounds == EffectiveRounds(k, m, mode)
    IN /\ spc \in Resting
       /\ runs < MaxRuns
       /\ LoopRounds(k, numRounds) <= MaxRounds
       /\ Dispatch([overload |-> "k, m", k |-> k, m |-> m,
                    numSimulations |-> k * m, sim_mode |-> mode,
                    mem_mode |-> mem_mode, useParallel |-> useParallel,
                    iterations |-> k, rounds |-> numRounds,
                    total |-> k * numRounds], ArgumentsRejected(Q(k), Q(m)))
       /\ UNCHANGED exceptSim

\* analyzeAccurateResults() and analyzeAccurateResults(k, m) up to the
\* bootstrap section, on the results stored
AnalyzeAccurate(results) ==
    IF results = <<>>
    THEN /\ spc' = "done"
         /\ m_results' = results
         /\ UNCHANGED <<m_stats, m_histogram, tpc>>
    ELSE /\ m_stats' = [count |-> Len(results)]
         /\ m_results' = Sort(results)
         /\ m_histogram' = ObserveAll(Cleared(m_histogram), Sort(results))
         /\ IF call.overload = "numSimulations"
            THEN spc' = "done" /\ UNCHANGED tpc
            ELSE IF call.iterations < 0
                 THEN spc' = "threw" /\ UNCHANGED tpc
                 ELSE spc' = "bootstrap" /\ tpc' = Unseeded

\* one pass of the loop body of runEfficientMode_SingleThread or
\* runAccurateMode_SingleThread
SingleRound(r) ==
    /\ spc = "single"
    /\ batch < call.iterations
    /\ round < call.rounds
    /\ r \in RoundResults(call.sim_mode)
    /\ m_rng' = m_rng + 1
    /\ simulated' = Append(simulated, r)
    /\ m_agg' = FoldRound(m_agg, r)
    /\ IF call.mem_mode = "EFFICIENT"
       THEN /\ m_final_online_stats' = [count |-> m_final_online_stats.count + 1]
            /\ m_histogram' = Observe(m_histogram, r.bg_score + r.fg_score)
            /\ UNCHANGED m_results
       ELSE /\ m_results' = Append(m_results, r.bg_score + r.fg_score)
            /\ UNCHANGED <<m_final_online_stats, m_histogram>>
    /\ IF round + 1 < call.rounds
       THEN round' = round + 1 /\ UNCHANGED batch
       ELSE round' = 0 /\ batch' = batch + 1
    /\ UNCHANGED <<m_histogram_configured, m_stats, spc, call, next_batch, threads,
                   tpc, per_round, runs, exceptSim>>

\* the loops of a single-threaded runner are over: the analysis
SingleFinish ==
    /\ spc = "single"
    /\ ~(batch < call.iterations /\ round < call.rounds)
    /\ IF call.mem_mode = "EFFICIENT"
       THEN /\ m_stats' = [count |-> m_final_online_stats.count]
            /\ spc' = "done"
            /\ UNCHANGED <<m_histogram, m_results, tpc>>
       ELSE AnalyzeAccurate(m_results)
    /\ UNCHANGED <<m_histogram_configured, call, batch, round, next_batch, threads,
                   m_agg, m_final_online_stats, per_round, m_rng, simulated, runs,
                   exceptSim>>

\* std::mt19937 local_rng(m_rng()): thread t reads the state of m_rng ...
SeedRead(t) ==
    /\ spc \in {"parallel", "bootstrap"}
    /\ tpc[t].pc = "seed"
    /\ tpc' = [tpc EXCEPT ![t].pc = "seeding", ![t].seen = m_rng]
    /\ UNCHANGED <<histVars, spc, call, batch, round, next_batch, threads, m_agg,
                   m_final_online_stats, m_results, per_round, m_rng, simulated,
                   runs, exceptSim>>

\* ... and writes the advanced state back; its seed is the draw of the state
\* it read
SeedWrite(t) ==
    /\ spc \in {"parallel", "bootstrap"}
    /\ tpc[t].pc = "seeding"
    /\ m_rng' = tpc[t].seen + 1
    /\ tpc' = [tpc EXCEPT ![t].pc = "loop", ![t].seed = tpc[t].seen]
    /\ UNCHANGED <<histVars, spc, call, batch, round, next_batch, threads, m_agg,
                   m_final_online_stats, m_results, per_round, simulated, runs,
                   exceptSim>>

\* the thread-owned values after the rounds of one iteration
RECURSIVE ThreadRounds(_, _, _)
ThreadRounds(t, results, dividers) ==
    IF results = <<>> THEN t
    ELSE ThreadRounds(ThreadRound(t, Head(results), dividers), Tail(results), dividers)
RECURSIVE ThreadRoundsAccurate(_, _)
ThreadRoundsAccurate(t, results) ==
    IF results = <<>> THEN t
    ELSE ThreadRoundsAccurate(ThreadRoundAccurate(t, Head(results)), Tail(results))

\* thread t takes the next iteration of the omp for loop (schedule(dynamic))
\* and executes its rounds
WorkerIteration(t, results) ==
    /\ spc = "parallel"
    /\ tpc[t].pc = "loop"
    /\ next_batch < call.iterations
    /\ Len(results) = (IF call.rounds > 0 THEN call.rounds ELSE 0)
    /\ \A i \in DOMAIN results : results[i] \in RoundResults(call.sim_mode)
    /\ next_batch' = next_batch + 1
    /\ simulated' = simulated \o results
    /\ IF call.mem_mode = "EFFICIENT"
       THEN /\ threads' = [threads EXCEPT
                             ![t] = ThreadRounds(@, results, m_histogram.dividers)]
            /\ UNCHANGED <<m_results, per_round>>
       ELSE /\ threads' = [threads EXCEPT ![t] = ThreadRoundsAccurate(@, results)]
            /\ m_results' =
                 [idx \in DOMAIN m_results |->
                    IF idx - 1 \in (next_batch * call.rounds)
                                     ..(next_batch * call.rounds + Len(results) - 1)
                    THEN LET r == results[idx - next_batch * call.rounds]
                         IN r.bg_score + r.fg_score
                    ELSE m_results[idx]]
            /\ per_round' =
                 [idx \in DOMAIN per_round |->
                    IF idx - 1 \in (next_batch * call.rounds)
                                     ..(next_batch * call.rounds + Len(results) - 1)
                    THEN PerRoundOf(results[idx - next_batch * call.rounds])
                    ELSE per_round[idx]]
    /\ UNCHANGED <<histVars, spc, call, batch, round, tpc, m_agg,
                   m_final_online_stats, m_rng, runs, exceptSim>>

\* no iteration is left for thread t: it waits at the end of the loop
WorkerEnd(t) ==
    /\ spc = "parallel"
    /\ tpc[t].pc = "loop"
    /\ next_batch >= call.iterations
    /\ tpc' = [tpc EXCEPT ![t].pc = "end"]
    /\ UNCHANGED <<histVars, spc, call, batch, round, next_batch, threads, m_agg,
                   m_final_online_stats, m_results, per_round, m_rng, simulated,
                   runs, exceptSim>>

\* after the parallel region: the reduction (Efficient) or the aggregation
\* over the per-round vectors (Accurate), then the analysis
Reduce ==
    /\ spc = "parallel"
    /\ \A t \in Threads : tpc[t].pc = "end"
    /\ IF call.mem_mode = "EFFICIENT"
       THEN /\ m_agg' = ReduceAggregates(m_agg, threads)
            /\ m_final_online_stats' = [count |-> ReduceCount(threads)]
            /\ m_histogram' =
                 ReduceHistogram(
                     IF call.overload = "k, m" THEN Cleared(m_histogram)
                     ELSE [m_histogram EXCEPT
                             !.bins = [i \in DOMAIN m_histogram.bins |-> 0]],
                     threads, Threads)
            /\ m_stats' = [count |-> ReduceCount(threads)]
            /\ spc' = "done"
            /\ UNCHANGED <<m_results, tpc>>
       ELSE /\ m_agg' = AggregateAccurate(m_agg, per_round, m_results, threads,
                                          m_stats.count)
            /\ AnalyzeAccurate(m_results)
            /\ UNCHANGED m_final_online_stats
    /\ UNCHANGED <<m_histogram_configured, call, batch, round, next_batch, threads,
                   per_round, m_rng, simulated, runs, exceptSim>>

\* the parallel region of the bootstrap section is over
BootstrapEnd ==
    /\ spc = "bootstrap"
    /\ \A t \in Threads : tpc[t].pc = "loop"
    /\ spc' = "done"
    /\ UNCHANGED <<histVars, call, batch, round, next_batch, threads, tpc, m_agg,
                   m_final_online_stats, m_results, per_round, m_rng, simulated,
                   runs, exceptSim>>

Next ==
    \/ \E dividers \in CustomDividers : ConfigureHistogram(dividers)
    \/ \E numSimulations \in SimulationCounts, mode \in SimulationModes,
          mem_mode \in MemoryModes, useParallel \in BOOLEAN :
            Run(numSimulations, mode, mem_mode, useParallel)
    \/ \E k \in BatchCounts, m \in RoundCounts, mode \in SimulationModes,
          mem_mode \in MemoryModes, useParallel \in BOOLEAN :
            RunBatches(k, m, mode, mem_mode, useParallel)
    \/ \E r \in AllRoundResults : SingleRound(r)
    \/ SingleFinish
    \/ \E t \in Threads : SeedRead(t)
    \/ \E t \in Threads : SeedWrite(t)
    \/ \E t \in Threads, results \in IterationResults : WorkerIteration(t, results)
    \/ \E t \in Threads : WorkerEnd(t)
    \/ Reduce
    \/ BootstrapEnd

Spec == InitSim /\ [][Next]_vars

(***************************************************************************)
(* Properties of the simulator.                                            *)
(***************************************************************************)
\* the aggregates after the loop body of runEfficientMode_SingleThread has
\* been executed for the rounds rs, in their order
RECURSIVE FoldRounds(_, _)
FoldRounds(a, rs) ==
    IF rs = <<>> THEN a ELSE FoldRounds(FoldRound(a, Head(rs)), Tail(rs))

\* total_score of each round
Totals(rs) == [i \in DOMAIN rs |-> rs[i].bg_score + rs[i].fg_score]

ParallelEfficientDone ==
    spc = "done" /\ call.useParallel /\ call.mem_mode = "EFFICIENT"

AllSeeded ==
    /\ spc \in {"parallel", "bootstrap"}
    /\ \A t \in Threads : tpc[t].pc \in {"loop", "end"}

\* C4: once every thread of a parallel region has seeded its generator, the
\* seeds are distinct successive draws of the master stream: no two threads
\* drew from the same state of m_rng, and m_rng has advanced by one draw per
\* thread.
C4_SeedsAreSuccessiveDraws ==
    AllSeeded =>
        /\ \A t, u \in Threads : t # u => tpc[t].seed # tpc[u].seed
        /\ \E t \in Threads :
              /\ \A u \in Threads : tpc[u].seed >= tpc[t].seed
              /\ m_rng = tpc[t].seed + NumThreads

\* C6: when run() has returned, in either memory mode, single-threaded or
\* parallel, the bins, underflow and overflow of the histogram sum to
\* m_stats.count.
C6_HistogramSumsToCount ==
    spc = "done" => Observations(m_histogram) = m_stats.count

\* an Accurate parallel run has returned with totals under the first edge,
\* inside the bins and over the last edge
C6_Witness ==
    /\ spc = "done"
    /\ call.useParallel
    /\ call.mem_mode = "ACCURATE"
    /\ m_stats.count = 3
    /\ m_histogram.underflow > 0
    /\ m_histogram.overflow > 0
    /\ \E i \in DOMAIN m_histogram.bins : m_histogram.bins[i] > 0

\* floor(requested / 10), raised to 1 when requested > 0
TenthOf(requested) ==
    IF requested > 0 THEN Max(1, requested \div 10) ELSE 0

FgOnlyDone == spc = "done" /\ call.sim_mode = "FG_ONLY"

\* C9 as stated: when an FG_ONLY run has returned, the rounds simulated are
\* floor(requested / 10), raised to 1 when requested > 0, with requested =
\* numSimulations for run(numSimulations) and K * M for run(K, M).
C9_FgOnlyTenthOfRequested ==
    FgOnlyDone => Len(simulated) = TenthOf(call.numSimulations)

\* C9 amended: run(numSimulations) simulates floor(numSimulations / 10) rounds,
\* raised to 1 when numSimulations > 0 (none when it is negative); run(K, M)
\* keeps K and simulates K * max(1, floor(M / 10)) rounds when K and M are
\* positive, and none when both are negative.
C9_FgOnlyRounds ==
    FgOnlyDone =>
        Len(simulated) =
            IF call.overload = "numSimulations"
            THEN TenthOf(call.numSimulations)
            ELSE IF call.k > 0 THEN call.k * TenthOf(call.m) ELSE 0

\* run(2, 5) in FG_ONLY mode has returned: two rounds, one per batch
C9_Witness ==
    /\ FgOnlyDone
    /\ call.overload = "k, m"
    /\ call.k = 2
    /\ call.m = 5
    /\ Len(simulated) = 2

\* C10: when run(K, M) has returned in FULL_GAME or BG_ONLY mode, K * M rounds
\* have been simulated and m_stats.count is K * M.
C10_RunSimulatesKTimesM ==
    (/\ spc = "done"
     /\ call.overload = "k, m"
     /\ call.sim_mode \in {"FULL_GAME", "BG_ONLY"})
        => /\ Len(simulated) = call.k * call.m
           /\ m_stats.count = call.k * call.m

(***************************************************************************)
(* The argument check of run(k, m, ...) on long long arguments of any      *)
(* size.  k and m are exact numbers <<n, d, e>>; the product is the 64-bit *)
(* one of the code.  Here call holds the two arguments, and spc becomes    *)
(* "threw" when std::invalid_argument is thrown, "accepted" when the check *)
(* is passed, "trapped" when the build traps on the signed overflow.       *)
(***************************************************************************)
\* long long values given to run(): small ones, and powers of two up to 2^62
LongLongs ==
    {Q(0), Q(1), Q(-1), Q(2), Q(-2), Q(3), Q(-3),
     <<1, 1, 31>>, <<-1, 1, 31>>, <<1, 1, 32>>, <<-1, 1, 32>>,
     <<1, 1, 62>>, <<-1, 1, 62>>}

InitArgs ==
    /\ LoadIdle
    /\ ReportIdle
    /\ FlagsIdle
    /\ ConfigIdle
    /\ WorkersIdle
    /\ RoundIdle
    /\ StatsIdle
    /\ HistIdle
    /\ spc = "idle"
    /\ call \in [k : LongLongs, m : LongLongs]
    /\ batch = 0
    /\ round = 0
    /\ next_batch = 0
    /\ threads = <<>>
    /\ tpc = <<>>
    /\ m_agg = <<>>
    /\ m_final_online_stats = <<>>
    /\ m_results = <<>>
    /\ per_round = <<>>
    /\ m_rng = 0
    /\ simulated = <<>>
    /\ runs = 0

\* run(k, m, ...) up to the argument check
CheckArguments(outcome) ==
    /\ spc = "idle"
    /\ ProductOverflows(call.k, call.m) \/ outcome = "wrap"
    /\ spc' = IF ProductOverflows(call.k, call.m) /\ outcome = "trap" THEN "trapped"
              ELSE IF ArgumentsRejected(call.k, call.m) THEN "threw"
              ELSE "accepted"
    /\ UNCHANGED <<roundVars, statsVars, histVars, percentile_calls, workerVars,
                   configVars, loadVars, reportVars, flagVars, call, batch,
                   round, next_batch, threads, tpc, m_agg, m_final_online_stats,
                   m_results, per_round, m_rng, simulated, runs>>

NextArgs == \E outcome \in OverflowOutcomes : CheckArguments(outcome)

SpecArgs == InitArgs /\ [][NextArgs]_vars

\* C11: whenever run(k, m, ...) is called with k * m <= 0, the argument check
\* throws std::invalid_argument.
C11_NonPositiveProductThrows ==
    (spc # "idle" /\ QMul(call.k, call.m)[1] <= 0) => spc = "threw"

(***************************************************************************)
(* DeepDive rounds run by the threads of a parallel region.  The threads   *)
(* share gameData (read only) and the function-static                      *)
(* cap_warning_logged_this_run; the queue and the counters of a round are  *)
(* locals of the call.  gameData holds one feature item, so a queue is     *)
(* given by its size.  An action holds at most one access to the static.   *)
(***************************************************************************)
\* warnings of one round are counted up to MaxWarnings
MaxWarnings == 2

\* one base item that triggers, one feature item without multiplier draws
WorkerConfigs ==
    {d \in DeepDiveConfigs :
        /\ Len(d.bg_items) = 1 /\ d.bg_items[1].flag
        /\ Len(d.fg_items) = 1 /\ d.fg_items[1].count = 0}

WorkerRound(pc, size, warned, capped) ==
    [pc |-> pc, size |-> size, warnings |-> warned, capped |-> capped]

InitWorkers ==
    /\ LoadIdle
    /\ ReportIdle
    /\ FlagsIdle
    /\ ConfigIdle
    /\ StatsIdle
    /\ HistIdle
    /\ SimIdle
    /\ gameData \in WorkerConfigs
    /\ isInitialized = TRUE
    /\ sim_mode = "FULL_GAME"
    /\ second_chance_prob = 0
    /\ rpc = "off"
    /\ fg_processing_queue = <<>>
    /\ result = <<>>
    /\ cap_warning_logged_this_run = FALSE
    /\ warnings = 0
    /\ round_log = <<>>
    /\ workers = [t \in Threads |-> WorkerRound("idle", 0, 0, FALSE)]

\* a thread calls simulateGameRound(local_rng, FULL_GAME, 0): the base item
\* triggers, 10 items are pushed, the static is reset
WorkerEnter(t) ==
    /\ workers[t].pc \in {"idle", "returned"}
    /\ isInitialized
    /\ gameData.bg_items # <<>>
    /\ gameData.bg_items[1].flag
    /\ gameData.fg_items # <<>>
    /\ workers' = [workers EXCEPT ![t] = WorkerRound("feature", DefaultPicks, 0, FALSE)]
    /\ cap_warning_logged_this_run' = FALSE
    /\ UNCHANGED <<gameData, isInitialized, sim_mode, second_chance_prob, rpc, fg_processing_queue,
                   result, warnings, round_log, exceptWorkers>>

\* one iteration of the while-loop of a thread
WorkerStep(t) ==
    /\ workers[t].pc = "feature"
    /\ workers[t].size > 0
    /\ LET current_fg == gameData.fg_items[1]
           popped == workers[t].size - 1
       IN IF current_fg.flag
          THEN IF popped > MAX_QUEUE_SIZE_DeepDive
               THEN LET already_logged == cap_warning_logged_this_run
                    IN /\ cap_warning_logged_this_run' = TRUE
                       /\ workers' = [workers EXCEPT
                              ![t].size = popped,
                              ![t].capped = TRUE,
                              ![t].warnings = IF already_logged THEN @
                                              ELSE Min(@ + 1, MaxWarnings)]
               ELSE /\ workers' = [workers EXCEPT ![t].size = popped + DefaultPicks]
                    /\ UNCHANGED cap_warning_logged_this_run
          ELSE /\ workers' = [workers EXCEPT ![t].size = popped]
               /\ UNCHANGED cap_warning_logged_this_run
    /\ UNCHANGED <<gameData, isInitialized, sim_mode, second_chance_prob, rpc, fg_processing_queue,
                   result, warnings, round_log, exceptWorkers>>

\* the loop test of a thread fails and its call returns
WorkerReturn(t) ==
    /\ workers[t].pc = "feature"
    /\ workers[t].size = 0
    /\ workers' = [workers EXCEPT ![t].pc = "returned"]
    /\ UNCHANGED <<roundVars, exceptWorkers>>

NextWorkers ==
    \/ \E t \in Threads : WorkerEnter(t)
    \/ \E t \in Threads : WorkerStep(t)
    \/ \E t \in Threads : WorkerReturn(t)

SpecWorkers == InitWorkers /\ [][NextWorkers]_vars

\* C17: in DeepDive, under every interleaving of the threads, a round writes
\* the cap warning once if it has met the cap and never otherwise, whatever
\* the rounds of the other threads do.
C17_OneWarningPerCappedRound ==
    \A t \in DOMAIN workers :
        workers[t].warnings = (IF workers[t].capped THEN 1 ELSE 0)

(***************************************************************************)
(* The histogram setters: setCustomHistogramBins,                          *)
(* setProgressiveHistogramBins, setFixedWidthHistogramBins, called in any  *)
(* order on a simulator just constructed or left by a run.  Edges are      *)
(* integers; setFixedWidthHistogramBins is called with max_val - 1 a       *)
(* multiple of num_bins, so that bin_width and the edges are integers,     *)
(* which the double arithmetic of the code gives exactly.                  *)
(***************************************************************************)
\* the lists setCustomHistogramBins is called with
EdgeValues == {0, 1, 2, 5}
EdgeLists == {<<>>} \cup {<<a>> : a \in EdgeValues}
                   \cup {<<a, b>> : a \in EdgeValues, b \in EdgeValues}

\* setFixedWidthHistogramBins(max_val, num_bins) throws std::invalid_argument
FixedWidthThrow(max_val, num_bins) == max_val <= 1 \/ num_bins < 1

\* the dividers setFixedWidthHistogramBins passes on
FixedWidthDividers(max_val, num_bins) ==
    LET bin_width == (max_val - 1) \div num_bins
    IN [i \in 1..num_bins |-> 1 + i * bin_width]

\* the arguments setFixedWidthHistogramBins is called with
FixedWidthArguments ==
    {a \in [max_val : {-3, 0, 1, 3, 7}, num_bins : {-1, 0, 1, 2, 3}] :
        FixedWidthThrow(a.max_val, a.num_bins) \/ (a.max_val - 1) % a.num_bins = 0}

ConfigCall(fn, args, threw) ==
    [fn |-> fn, args |-> args, threw |-> threw,
     before |-> [m_histogram |-> m_histogram,
                 m_histogram_configured |-> m_histogram_configured]]

InitConfig ==
    /\ LoadIdle
    /\ ReportIdle
    /\ FlagsIdle
    /\ WorkersIdle
    /\ ConfigIdle
    /\ RoundIdle
    /\ StatsIdle
    /\ SimIdle
    /\ percentile_calls = <<>>
    /\ \/ /\ m_histogram = Histogram
          /\ m_histogram_configured = FALSE
       \/ /\ m_histogram \in {h \in Histograms : Len(h.bins) = Len(h.dividers) - 1}
          /\ m_histogram_configured = TRUE
    /\ m_stats = [count |-> Observations(m_histogram)]

\* the body of setCustomHistogramBins(dividers), called by fn with args
CustomBins(fn, args, dividers) ==
    IF CustomBinsThrow(dividers)
    THEN /\ config_call' = ConfigCall(fn, args, TRUE)
         /\ UNCHANGED <<m_histogram, m_histogram_configured>>
    ELSE /\ config_call' = ConfigCall(fn, args, FALSE)
         /\ m_histogram' = SetCustomHistogramBins(m_histogram, dividers)
         /\ m_histogram_configured' = TRUE

SetCustomBins(dividers) ==
    /\ CustomBins("setCustomHistogramBins", dividers, dividers)
    /\ UNCHANGED <<m_stats, exceptConfig>>

SetProgressiveBins ==
    /\ CustomBins("setProgressiveHistogramBins", <<>>, ProgressiveDividers)
    /\ UNCHANGED <<m_stats, exceptConfig>>

SetFixedWidthBins(max_val, num_bins) ==
    /\ LET args == <<max_val, num_bins>>
       IN IF FixedWidthThrow(max_val, num_bins)
          THEN /\ config_call' = ConfigCall("setFixedWidthHistogramBins", args, TRUE)
               /\ UNCHANGED <<m_histogram, m_histogram_configured>>
          ELSE CustomBins("setFixedWidthHistogramBins", args,
                          FixedWidthDividers(max_val, num_bins))
    /\ UNCHANGED <<m_stats, exceptConfig>>

NextConfig ==
    \/ \E dividers \in EdgeLists : SetCustomBins(dividers)
    \/ SetProgressiveBins
    \/ \E a \in FixedWidthArguments : SetFixedWidthBins(a.max_val, a.num_bins)

SpecConfig == InitConfig /\ [][NextConfig]_vars

StrictlyIncreasing(s) == \A i \in 1..(Len(s) - 1) : s[i] < s[i + 1]

\* C18: after a call of setCustomHistogramBins, setProgressiveHistogramBins
\* or setFixedWidthHistogramBins that returned, m_histogram.dividers is
\* strictly increasing and m_histogram.bins has one element fewer.
C18_EdgesStrictlyIncreasing ==
    (config_call # <<>> /\ ~config_call.threw) =>
        /\ StrictlyIncreasing(m_histogram.dividers)
        /\ Len(m_histogram.bins) = Len(m_histogram.dividers) - 1

\* the arguments C19 is about
InvalidArguments(c) ==
    \/ /\ c.fn = "setCustomHistogramBins"
       /\ c.args = <<>> \/ c.args[1] < 1
    \/ /\ c.fn = "setFixedWidthHistogramBins"
       /\ c.args[1] <= 1 \/ c.args[2] < 1

\* C19: setCustomHistogramBins with an empty list or a first edge below 1.0,
\* and setFixedWidthHistogramBins with max_val <= 1 or num_bins < 1, throw
\* std::invalid_argument and leave m_histogram (edges and counts) and
\* m_histogram_configured as they were before the call.
C19_InvalidArgumentsThrow ==
    (config_call # <<>> /\ InvalidArguments(config_call)) =>
        /\ config_call.threw
        /\ m_histogram = config_call.before.m_histogram
        /\ m_histogram_configured = config_call.before.m_histogram_configured

\* setFixedWidthHistogramBins has thrown on a configured histogram that holds
\* observations
C19_Witness ==
    /\ config_call # <<>>
    /\ config_call.fn = "setFixedWidthHistogramBins"
    /\ InvalidArguments(config_call)
    /\ config_call.threw
    /\ m_histogram_configured
    /\ \E i \in DOMAIN m_histogram.bins : m_histogram.bins[i] > 0

(***************************************************************************)
(* The loaders of the Game module and simulateGameRound, called in any     *)
(* order by one thread.  A JSON file is given by the gameData a complete   *)
(* load of it leaves; a load that fails has filled the first members only. *)
(***************************************************************************)
\* the members of gameData in the order initializeFromJSON fills them
Members(module) ==
    IF module = "DeepDive"
    THEN <<"bg_items", "fg_items", "multiplier_pools", "item_to_pool_map">>
    ELSE <<"bg_items", "fg_items">>

\* clearGameData() that leaves isInitialized as it is
ClearGameDataKeepsFlag ==
    [gameData |-> Data(gameData.module, <<>>, <<>>, NoMap, <<>>),
     isInitialized |-> isInitialized]

\* clearGameData()
ClearGameData ==
    [gameData |-> Data(gameData.module, <<>>, <<>>, NoMap, <<>>),
     isInitialized |-> FALSE]

\* gameData when the load of file d has filled its first n members
Filled(cleared, d, n) ==
    [m \in DOMAIN cleared |->
        IF \E i \in 1..n : Members(d.module)[i] = m THEN d[m] ELSE cleared[m]]

\* the data of initializeWithSampleData()
SampleData(module) ==
    IF module = "DeepDive"
    THEN Data("DeepDive",
              <<BG(101, 10, TRUE, 0, 1), BG(102, 15, FALSE, 0, 2), BG(103, 5, TRUE, 0, 1)>>,
              <<FG(201, 100, TRUE, 3, 0, 1), FG(202, 250, FALSE, 5, 0, 2),
                FG(203, 500, TRUE, 1, 0, 3), FG(204, 25, FALSE, 0, 0, 1),
                FG(205, 50, TRUE, 4, 0, 2)>>,
              {<<201, 0>>, <<202, 1>>, <<203, 1>>, <<205, 0>>},
              <<<<1, 2, 3, 5, 10>>, <<1, 1, 1, 3, 10>>>>)
    ELSE Data("SS03",
              <<BG(1, 10, FALSE, 0, 2), BG(2, 20, FALSE, 0, 3), BG(3, 5, FALSE, 0, 1),
                BG(4, 0, FALSE, 10, 1), BG(5, 0, FALSE, 12, 1)>>,
              <<FG(101, 100, FALSE, 0, 0, 2), FG(102, 250, FALSE, 0, 2, 3),
                FG(103, 50, FALSE, 0, 0, 1)>>,
              NoMap, <<>>)

\* the files loaded: at most one base and one feature item, no continuation
JsonFiles(module) ==
    {d \in GameConfigs :
        /\ d.module = module
        /\ Len(d.bg_items) <= 1 /\ Len(d.fg_items) <= 1
        /\ \A i \in DOMAIN d.bg_items : d.bg_items[i].trigger_num <= DefaultPicks
        /\ \A i \in DOMAIN d.fg_items :
              ~d.fg_items[i].flag /\ d.fg_items[i].retrigger_num = 0}

\* the modes simulateGameRound is called with: on the sample data, whose
\* feature pool gives 10 picks too many outcomes to enumerate, BG_ONLY
CallModes == IF Len(gameData.fg_items) > 1 THEN {"BG_ONLY"} ELSE SimulationModes

LoadLog(last) ==
    [last |-> last,
     completed_before |-> load_log.completed_before \/ load_log.last = "completed"]

\* the locals of a call of simulateGameRound that has not begun
FreshCall ==
    /\ rpc' = "idle"
    /\ fg_processing_queue' = <<>>
    /\ result' = NoResult
    /\ round_log' = NoLog

InitLoad ==
    /\ ReportIdle
    /\ FlagsIdle
    /\ ConfigIdle
    /\ WorkersIdle
    /\ StatsIdle
    /\ HistIdle
    /\ SimIdle
    /\ \E module \in {"DeepDive", "SS03"} : gameData = Data(module, <<>>, <<>>, NoMap, <<>>)
    /\ isInitialized = FALSE
    /\ sim_mode = "FULL_GAME"
    /\ second_chance_prob = 0
    /\ rpc = "idle"
    /\ fg_processing_queue = <<>>
    /\ result = NoResult
    /\ cap_warning_logged_this_run = FALSE
    /\ warnings = 0
    /\ round_log = NoLog
    /\ load_log = [last |-> "none", completed_before |-> FALSE]

InitializeWithSampleData ==
    /\ rpc = "idle"
    /\ gameData' = SampleData(gameData.module)
    /\ isInitialized' = TRUE
    /\ load_log' = LoadLog("completed")
    /\ UNCHANGED <<sim_mode, second_chance_prob, rpc, fg_processing_queue, result,
                   cap_warning_logged_this_run, warnings, round_log, exceptLoad>>

\* initializeFromJSON of file d: it throws after filling n members (n = 0: the
\* file does not open, or does not parse), or completes
InitializeFromJSON(d, n) ==
    /\ rpc = "idle"
    /\ d \in JsonFiles(gameData.module)
    /\ n \in 0..Len(Members(d.module))
    /\ LET cleared == ClearGameData
       IN IF n < Len(Members(d.module))
          THEN /\ gameData' = Filled(cleared.gameData, d, n)
               /\ isInitialized' = cleared.isInitialized
               /\ load_log' = LoadLog("failed")
          ELSE /\ gameData' = d
               /\ isInitialized' = TRUE
               /\ load_log' = LoadLog("completed")
    /\ UNCHANGED <<sim_mode, second_chance_prob, rpc, fg_processing_queue, result,
                   cap_warning_logged_this_run, warnings, round_log, exceptLoad>>

\* the caller goes on after simulateGameRound has returned or thrown
CallerContinues ==
    /\ rpc \in {"returned", "threw"}
    /\ FreshCall
    /\ UNCHANGED <<gameData, isInitialized, sim_mode, second_chance_prob,
                   cap_warning_logged_this_run, warnings, exceptRound>>

NextLoad ==
    \/ InitializeWithSampleData
    \/ \E d \in GameConfigs, n \in 0..4 : InitializeFromJSON(d, n)
    \/ CallerContinues
    \/ \E mode \in CallModes, prob \in ChanceProbs : SimulateGameRound_DeepDive(mode, prob)
    \/ FeatureStep_DeepDive
    \/ FeatureReturn_DeepDive
    \/ \E mode \in CallModes, prob \in ChanceProbs : SimulateGameRound_SS03(mode, prob)
    \/ FeatureStep_SS03
    \/ FeatureReturn_SS03

SpecLoad == InitLoad /\ [][NextLoad]_vars

\* C20: in any sequence of loads and calls, simulateGameRound throws and
\* gives no GameResult whenever the last load attempt did not complete
\* (nothing loaded yet, or the last initializeFromJSON threw, a completed
\* earlier load notwithstanding), and it gets to a result only if the last
\* load attempt completed.
C20_SimulateOnlyAfterCompletedLoad ==
    rpc # "idle" =>
        /\ load_log.last # "completed" => (rpc = "threw" /\ round_log = NoLog)
        /\ rpc \in {"feature", "returned"} => load_log.last = "completed"

\* simulateGameRound has thrown after a failed load that followed a
\* completed one and left base items behind
C20_Witness ==
    /\ rpc = "threw"
    /\ load_log.last = "failed"
    /\ load_log.completed_before
    /\ gameData.bg_items # <<>>

(***************************************************************************)
(* MonteCarloSimulator: what a run reports besides the counters: the top   *)
(* values, the batch means and the confidence intervals.  A round is its   *)
(* total_score; a thread executes the rounds of one iteration of the outer *)
(* loop in one step, since it writes only what it owns (its slots of the   *)
(* thread_ vectors, the elements idx of m_results).                        *)
(***************************************************************************)
\* Bound: rounds a run of this part of the model may execute.
MaxReportRounds == 6

\* total_score of a round
ScoreValues == {0, 1, 2}

\* the third argument of every call of updateTopValues, and the size the merged
\* and the extracted top values are cut to
TopCount == 5

Reverse(s) == [i \in DOMAIN s |-> s[Len(s) + 1 - i]]

\* updateTopValues without the replacement of the smallest value
UpdateTopValuesNoReplace(tv, new_value, k) ==
    IF Len(tv) < k THEN Sort(Append(tv, new_value)) ELSE tv

\* void updateTopValues(std::vector<double>& top_values, double new_value, size_t k)
UpdateTopValues(tv, new_value, k) ==
    IF Len(tv) < k THEN Sort(Append(tv, new_value))
    ELSE IF new_value > tv[1] THEN Sort([tv EXCEPT ![1] = new_value])
    ELSE tv

\* updateTopValues for the rounds of one iteration, in their order
RECURSIVE UpdateTopValuesAll(_, _)
UpdateTopValuesAll(tv, totals) ==
    IF totals = <<>> THEN tv
    ELSE UpdateTopValuesAll(UpdateTopValues(tv, Head(totals), TopCount), Tail(totals))

\* the vectors of ttv one after the other, in the order of the thread ids
RECURSIVE Concatenated(_, _)
Concatenated(ttv, t) ==
    IF t \notin DOMAIN ttv THEN <<>> ELSE ttv[t] \o Concatenated(ttv, t + 1)

\* "Combine and sort top values": std::sort over the reverse iterators, resize
MergeTopValues(ttv) ==
    LET all == Reverse(Sort(Concatenated(ttv, 0)))
    IN SubSeq(all, 1, Min(TopCount, Len(all)))

\* "Extracting top values" of analyzeAccurateResults, results sorted
ExtractTopValues(results) ==
    [i \in 1..Min(TopCount, Len(results)) |-> results[Len(results) + 1 - i]]

\* batch_stats.M1 after batch_stats.update(total_score) for the rounds of a batch
RECURSIVE BatchStats(_, _)
BatchStats(s, totals) ==
    IF totals = <<>> THEN s ELSE BatchStats(Update(s, Head(totals)), Tail(totals))
\* a batch mean that is the total of the first round of the batch
BatchMeanFirstRound(totals) == BatchStats(EmptyStats, SubSeq(totals, 1, 1)).M1
BatchMean(totals) == BatchStats(EmptyStats, totals).M1

\* Statistics::calculateMean and Statistics::calculateVariance on exact numbers
CalculateMean(data) ==
    IF data = <<>> THEN Q(0) ELSE QDiv(QSum(data), Q(Len(data)))
CalculateVariance(data, mean) ==
    IF Len(data) < 2 THEN Q(0)
    ELSE QDiv(QSum([i \in DOMAIN data |->
                      QMul(QSub(data[i], mean), QSub(data[i], mean))]),
              Q(Len(data)))

\* the rows of t_table the model can reach, in thousandths, and the z-scores
TTable == [df \in {1, 2, 3, 4, 5} |->
             CASE df = 1 -> <<6314, 12706, 63657>>
               [] df = 2 -> <<2920, 4303, 9925>>
               [] df = 3 -> <<2353, 3182, 5841>>
               [] df = 4 -> <<2132, 2776, 4604>>
               [] df = 5 -> <<2015, 2571, 4032>>]
ZScores == <<1645, 1960, 2576>>
LevelIndex(confidence_level) ==
    CASE confidence_level = 90 -> 1 [] confidence_level = 95 -> 2
      [] confidence_level = 99 -> 3 [] OTHER -> 0

\* Statistics::findTValue with the degrees of freedom one too many
FindTValueOneMore(confidence_level, df) ==
    QDiv(Q(TTable[df + 1][LevelIndex(confidence_level)]), Q(1000))

\* double Statistics::findTValue(double confidence_level, int df), for the df a
\* model run reaches (each of them a key of t_table)
FindTValue(confidence_level, df) ==
    IF df < 1 \/ LevelIndex(confidence_level) = 0 THEN "nan"
    ELSE IF df > 100 THEN QDiv(Q(ZScores[LevelIndex(confidence_level)]), Q(1000))
    ELSE QDiv(Q(TTable[df][LevelIndex(confidence_level)]), Q(1000))

\* the double base + coeff * sqrt(radicand), kept as its three exact parts
Bound(base, coeff, radicand) == [base |-> base, coeff |-> coeff, radicand |-> radicand]

ConfidenceInterval(level, lower_bound, upper_bound) ==
    [level |-> level, lower_bound |-> lower_bound, upper_bound |-> upper_bound]

\* the intervals analyzeEfficientResults(k) pushes for at least 2 batch means
BatchedMeansIntervals(batch_means) ==
    LET mean_of_means == CalculateMean(batch_means)
        variance_of_means == CalculateVariance(batch_means, mean_of_means)
        std_error_squared == QDiv(variance_of_means, Q(Len(batch_means)))
        df == Len(batch_means) - 1
        interval(level) ==
            ConfidenceInterval(level,
                Bound(mean_of_means, QNeg(FindTValue(level, df)), std_error_squared),
                Bound(mean_of_means, FindTValue(level, df), std_error_squared))
    IN <<interval(90), interval(95), interval(99)>>

\* std::sort on exact numbers
RECURSIVE QInsert(_, _)
QInsert(sorted, x) ==
    IF sorted = <<>> THEN <<x>>
    ELSE IF QLe(x, Head(sorted)) THEN <<x>> \o sorted
    ELSE <<Head(sorted)>> \o QInsert(Tail(sorted), x)
RECURSIVE QSort(_)
QSort(s) == IF s = <<>> THEN <<>> ELSE QInsert(QSort(Tail(s)), Head(s))

\* static_cast<size_t>(rank) of a rank >= 0
QFloor(a) ==
    IF a[3] >= 0 THEN (a[1] * 2^a[3]) \div a[2] ELSE a[1] \div (a[2] * 2^(-a[3]))

\* findValueAtPercentile with the rank counted from the largest value
ValueAtMirroredRank(data, percentile) ==
    LET sorted == QSort(data)
        rank == QMul(QDiv(QSub(Q(100), percentile), Q(100)), Q(Len(sorted) - 1))
        lower_index == QFloor(rank)
        fraction == QSub(rank, Q(lower_index))
    IN IF lower_index + 1 >= Len(sorted) THEN sorted[Len(sorted)]
       ELSE QAdd(sorted[lower_index + 1],
                 QMul(fraction, QSub(sorted[lower_index + 2], sorted[lower_index + 1])))

\* double Statistics::findValueAtPercentile(std::vector<double>& data, double
\* percentile), for data that is not empty and 0 <= percentile <= 100
FindValueAtPercentile(data, percentile) ==
    LET sorted == QSort(data)
        rank == QMul(QDiv(percentile, Q(100)), Q(Len(sorted) - 1))
        lower_index == QFloor(rank)
        fraction == QSub(rank, Q(lower_index))
    IN IF percentile = Q(100) THEN sorted[Len(sorted)]
       ELSE IF lower_index + 1 >= Len(sorted) THEN sorted[Len(sorted)]
       ELSE QAdd(sorted[lower_index + 1],
                 QMul(fraction, QSub(sorted[lower_index + 2], sorted[lower_index + 1])))

\* the percentiles of the bootstrap intervals: 5/95, 2.5/97.5, 0.5/99.5
Half(n) == QDiv(Q(n), Q(2))

\* the intervals analyzeAccurateResults(k, m) pushes, bootstrap_means sorted
BootstrapIntervals(bootstrap_means) ==
    <<ConfidenceInterval(90, FindValueAtPercentile(bootstrap_means, Q(5)),
                             FindValueAtPercentile(bootstrap_means, Q(95))),
      ConfidenceInterval(95, FindValueAtPercentile(bootstrap_means, Half(5)),
                             FindValueAtPercentile(bootstrap_means, Half(195))),
      ConfidenceInterval(99, FindValueAtPercentile(bootstrap_means, Half(1)),
                             FindValueAtPercentile(bootstrap_means, Half(199)))>>

\* Arguments of run() in this part of the model.
ReportBatchCounts == {-2, 1, 2, 3}
ReportRoundCounts == {-1, 1, 2, 3, 10}
ReportSimulationCounts == {0, 1, 4}
ReportModes == {"FULL_GAME", "FG_ONLY"}

ReportResting == {"idle", "done", "threw"}

\* the rounds executed so far in this run
RECURSIVE LoggedTotals(_)
LoggedTotals(log) ==
    IF log = <<>> THEN <<>> ELSE Head(log).totals \o LoggedTotals(Tail(log))

InitReport ==
    /\ FlagsIdle
    /\ LoadIdle
    /\ ConfigIdle
    /\ WorkersIdle
    /\ RoundIdle
    /\ StatsIdle
    /\ HistIdle
    /\ SimIdle
    /\ report_pc = "idle"
    /\ report_call = <<>>
    /\ m_top_values_tracker = <<>>
    /\ thread_top_values = <<>>
    /\ m_batch_means = <<>>
    /\ thread_batch_means = <<>>
    /\ top_values = <<>>
    /\ confidence_intervals = <<>>
    /\ m_bootstrap_means = <<>>
    /\ resample_i = 0
    /\ batch_log = <<>>

\* run(): resetState(), then, unless thrown says that the argument check threw,
\* the prologue of the runner chosen; c.batches and c.rounds are the bounds of
\* its outer and inner loop
ReportDispatch(c, thrown) ==
    LET length_error == c.mem_mode = "ACCURATE" /\ c.batches * c.rounds < 0
        started == ~thrown /\ ~length_error
    IN /\ report_pc \in ReportResting
       /\ report_call' = c
       /\ top_values' = <<>>
       /\ confidence_intervals' = <<>>
       /\ m_top_values_tracker' = <<>>
       /\ m_batch_means' = <<>>
       /\ m_bootstrap_means' = <<>>
       /\ resample_i' = 0
       /\ batch_log' = <<>>
       /\ m_results' = IF started /\ c.mem_mode = "ACCURATE" /\ c.useParallel
                       THEN [i \in 1..(c.batches * c.rounds) |-> 0]
                       ELSE <<>>
       /\ thread_top_values' = IF started /\ c.mem_mode = "EFFICIENT" /\ c.useParallel
                               THEN [t \in Threads |-> <<>>]
                               ELSE <<>>
       /\ thread_batch_means' = IF started /\ c.mem_mode = "EFFICIENT" /\ c.useParallel
                                   /\ c.overload = "k, m"
                                THEN [t \in Threads |-> <<>>]
                                ELSE <<>>
       /\ report_pc' = IF ~started THEN "threw"
                       ELSE IF c.useParallel THEN "parallel" ELSE "single"
       /\ UNCHANGED exceptReport

\* run(numSimulations, sim_mode, mem_mode, useParallel, second_chance_prob)
ReportRun(numSimulations, mode, mem_mode, useParallel) ==
    LET effective_simulations == EffectiveSimulations(numSimulations, mode)
    IN /\ LoopRounds(effective_simulations, 1) <= MaxReportRounds
       /\ ReportDispatch([overload |-> "numSimulations", k |-> 0, m |-> 0,
                          numSimulations |-> numSimulations, sim_mode |-> mode,
                          mem_mode |-> mem_mode, useParallel |-> useParallel,
                          batches |-> effective_simulations, rounds |-> 1], FALSE)

\* run(k, m, sim_mode, mode, useParallel, second_chance_prob)
ReportRunBatches(k, m, mode, mem_mode, useParallel) ==
    LET numRounds == EffectiveRounds(k, m, mode)
    IN /\ LoopRounds(k, numRounds) <= MaxReportRounds
       /\ ReportDispatch([overload |-> "k, m", k |-> k, m |-> m,
                          numSimulations |-> k * m, sim_mode |-> mode,
                          mem_mode |-> mem_mode, useParallel |-> useParallel,
                          batches |-> k, rounds |-> numRounds],
                         ArgumentsRejected(Q(k), Q(m)))

\* thread t (the caller in a single-threaded runner) executes the next iteration
\* of the outer loop: the rounds of a batch, or one round in the
\* numSimulations runners
ExecuteBatch(t, totals) ==
    LET c == report_call
        first == Len(batch_log) * c.rounds
    IN /\ report_pc \in {"single", "parallel"}
       /\ report_pc = "single" => t = 0
       /\ Len(batch_log) < c.batches
       /\ Len(totals) = (IF c.rounds > 0 THEN c.rounds ELSE 0)
       /\ batch_log' = Append(batch_log, [batch |-> Len(batch_log), thread |-> t,
                                          totals |-> totals])
       /\ IF c.mem_mode = "EFFICIENT" /\ ~c.useParallel
          THEN /\ m_top_values_tracker' = UpdateTopValuesAll(m_top_values_tracker, totals)
               /\ m_batch_means' = IF c.overload = "k, m"
                                   THEN Append(m_batch_means, BatchMean(totals))
                                   ELSE m_batch_means
               /\ UNCHANGED <<thread_top_values, thread_batch_means, m_results>>
          ELSE IF c.mem_mode = "EFFICIENT"
          THEN /\ thread_top_values' =
                    [thread_top_values EXCEPT ![t] = UpdateTopValuesAll(@, totals)]
               /\ thread_batch_means' =
                    IF c.overload = "k, m"
                    THEN [thread_batch_means EXCEPT ![t] = Append(@, BatchMean(totals))]
                    ELSE thread_batch_means
               /\ UNCHANGED <<m_top_values_tracker, m_batch_means, m_results>>
          ELSE /\ m_results' =
                    IF c.useParallel
                    THEN [idx \in DOMAIN m_results |->
                            IF idx - 1 \in first..(first + Len(totals) - 1)
                            THEN totals[idx - first] ELSE m_results[idx]]
                    ELSE m_results \o totals
               /\ UNCHANGED <<m_top_values_tracker, m_batch_means, thread_top_values,
                              thread_batch_means>>
       /\ UNCHANGED <<report_pc, report_call, top_values, confidence_intervals,
                      m_bootstrap_means, resample_i, exceptReport>>

\* the loops are over: the merge of the parallel Efficient runners, then
\* analyzeEfficientResults or analyzeAccurateResults up to the bootstrap loop
ReportFinish ==
    LET c == report_call
        merged == c.mem_mode = "EFFICIENT" /\ c.useParallel
        tracker == IF merged THEN MergeTopValues(thread_top_values)
                   ELSE m_top_values_tracker
        batch_means == IF merged /\ c.overload = "k, m"
                       THEN Concatenated(thread_batch_means, 0)
                       ELSE m_batch_means
        count == Len(LoggedTotals(batch_log))
    IN /\ report_pc \in {"single", "parallel"}
       /\ ~(Len(batch_log) < c.batches)
       /\ IF c.mem_mode = "EFFICIENT"
          THEN /\ m_top_values_tracker' = tracker
               /\ m_batch_means' = batch_means
               /\ top_values' = IF count = 0 THEN top_values ELSE tracker
               /\ confidence_intervals' =
                    IF count = 0 \/ c.overload # "k, m" \/ Len(batch_means) < 2
                    THEN confidence_intervals
                    ELSE BatchedMeansIntervals(batch_means)
               /\ report_pc' = "done"
               /\ UNCHANGED <<m_results, m_bootstrap_means>>
          ELSE /\ UNCHANGED <<m_top_values_tracker, m_batch_means, confidence_intervals>>
               /\ IF m_results = <<>>
                  THEN /\ report_pc' = "done"
                       /\ UNCHANGED <<m_results, top_values, m_bootstrap_means>>
                  ELSE /\ m_results' = Sort(m_results)
                       /\ top_values' = ExtractTopValues(Sort(m_results))
                       /\ IF c.overload # "k, m"
                          THEN report_pc' = "done" /\ UNCHANGED m_bootstrap_means
                          ELSE IF c.batches < 0
                          THEN report_pc' = "threw" /\ UNCHANGED m_bootstrap_means
                          ELSE /\ report_pc' = "bootstrap"
                               /\ m_bootstrap_means' = [i \in 1..c.batches |-> Q(0)]
       /\ UNCHANGED <<report_call, thread_top_values, thread_batch_means, resample_i,
                      batch_log, exceptReport>>

\* iteration i of the bootstrap loop; indices are the draws of dist(local_rng).
\* The iterations write one element each and read m_results only, so the order
\* in which the threads execute them does not show in the result.
Resample(indices) ==
    LET c == report_call
        current_sum == SumSeq([j \in DOMAIN indices |-> m_results[indices[j] + 1]])
    IN /\ report_pc = "bootstrap"
       /\ resample_i < c.batches
       /\ Len(indices) = c.rounds
       /\ \A j \in DOMAIN indices : indices[j] \in 0..(Len(m_results) - 1)
       /\ m_bootstrap_means' = [m_bootstrap_means EXCEPT
                                  ![resample_i + 1] = QDiv(Q(current_sum), Q(c.rounds))]
       /\ resample_i' = resample_i + 1
       /\ UNCHANGED <<report_pc, report_call, m_top_values_tracker, thread_top_values,
                      m_batch_means, thread_batch_means, top_values, confidence_intervals,
                      batch_log, m_results, exceptReport>>

\* "Calculate CI from bootstrap percentiles"
BootstrapFinish ==
    /\ report_pc = "bootstrap"
    /\ ~(resample_i < report_call.batches)
    /\ m_bootstrap_means' = QSort(m_bootstrap_means)
    /\ confidence_intervals' = BootstrapIntervals(QSort(m_bootstrap_means))
    /\ report_pc' = "done"
    /\ UNCHANGED <<report_call, m_top_values_tracker, thread_top_values, m_batch_means,
                   thread_batch_means, top_values, resample_i, batch_log, m_results,
                   exceptReport>>

\* the rounds of one iteration, and draws that all hit the first result
BatchTotals == UNION {[1..n -> ScoreValues] : n \in 0..3}
FirstDraws == {[j \in 1..n |-> 0] : n \in 1..3}

\* run() is called on a simulator that has not run before
FirstRun == report_pc = "idle"

NextReport ==
    \/ \E numSimulations \in ReportSimulationCounts, mode \in ReportModes,
          mem_mode \in MemoryModes, useParallel \in BOOLEAN :
            FirstRun /\ ReportRun(numSimulations, mode, mem_mode, useParallel)
    \/ \E k \in ReportBatchCounts, m \in ReportRoundCounts, mode \in ReportModes,
          mem_mode \in MemoryModes, useParallel \in BOOLEAN :
            FirstRun /\ ReportRunBatches(k, m, mode, mem_mode, useParallel)
    \/ \E t \in Threads, totals \in BatchTotals : ExecuteBatch(t, totals)
    \/ ReportFinish
    \/ \E indices \in FirstDraws : Resample(indices)
    \/ BootstrapFinish

SpecReport == InitReport /\ [][NextReport]_vars

(***************************************************************************)
(* Properties of the reports.                                              *)
(***************************************************************************)
EfficientDone == report_pc = "done" /\ report_call.mem_mode = "EFFICIENT"

\* the n largest values of totals, ascending
Largest(totals, n) ==
    SubSeq(Sort(totals), Len(totals) - Min(n, Len(totals)) + 1, Len(totals))

\* C24: after an Efficient run over N rounds, single-threaded or parallel with
\* any hand-out of the iterations to the threads, top_values holds, as a
\* multiset, the min(5, N) largest round totals of the run.
C24_TopValuesAreLargest ==
    EfficientDone => Sort(top_values) = Largest(LoggedTotals(batch_log), TopCount)

\* a parallel Efficient run of six rounds, both threads with rounds, in which a
\* round total smaller than every reported top value was left out
C24_Witness ==
    /\ EfficientDone
    /\ report_call.useParallel
    /\ Len(LoggedTotals(batch_log)) > TopCount
    /\ \A t \in Threads : \E i \in DOMAIN batch_log : batch_log[i].thread = t
    /\ \E i \in DOMAIN batch_log : \E j \in DOMAIN batch_log[i].totals :
          \A x \in DOMAIN top_values : batch_log[i].totals[j] < top_values[x]

Descending(s) == \A i \in 1..(Len(s) - 1) : s[i] >= s[i + 1]

\* C29: after a completed run, in every memory mode, single-threaded or
\* parallel, top_values is in descending order, the largest round total first.
C29_TopValuesDescending ==
    report_pc = "done" => Descending(top_values)

ParallelBatchesDone ==
    /\ EfficientDone
    /\ report_call.useParallel
    /\ report_call.overload = "k, m"

\* the mean of the round totals of a batch, by its definition
MeanOfTotals(totals) == QDiv(Q(SumSeq(totals)), Q(Len(totals)))

\* every batch index of 0..k-1 was executed once, each batch over the given
\* number of rounds, and the batch means are the means of these batches
BatchesExecuted(k, rounds) ==
    /\ \A b \in 0..(k - 1) :
          Cardinality({i \in DOMAIN batch_log : batch_log[i].batch = b}) = 1
    /\ \A i \in DOMAIN batch_log :
          batch_log[i].batch \in 0..(k - 1) /\ Len(batch_log[i].totals) = rounds
    /\ QSort(m_batch_means)
         = QSort([i \in DOMAIN batch_log |-> MeanOfTotals(batch_log[i].totals)])

\* C25 as stated: after a parallel Efficient run(K, M, ...), every batch index
\* 0..K-1 was executed exactly once, each batch mean is the mean of exactly M
\* rounds of its batch, and the batch-mean list has exactly K entries.
C25_BatchMeansOverM ==
    ParallelBatchesDone =>
        /\ BatchesExecuted(report_call.k, report_call.m)
        /\ Len(m_batch_means) = report_call.k

\* the rounds of a batch: M, in FG_ONLY mode a tenth of M and at least 1
RoundsPerBatch ==
    IF report_call.sim_mode = "FG_ONLY"
    THEN IF report_call.m \div 10 < 1 THEN 1 ELSE report_call.m \div 10
    ELSE report_call.m

\* C25, amended: after a parallel Efficient run(K, M, ...), whatever the
\* hand-out of the batches to the threads, every batch index 0..K-1 was executed
\* exactly once, each batch mean is the mean of the rounds of its batch, which
\* are M rounds, in FG_ONLY mode floor(M / 10) rounds and at least 1, and the
\* batch-mean list has one entry for each batch index (none for K < 1).
C25_BatchMeansOverRoundsPerBatch ==
    ParallelBatchesDone =>
        /\ BatchesExecuted(report_call.k, RoundsPerBatch)
        /\ Len(m_batch_means) = Cardinality(0..(report_call.k - 1))

\* three batches of two rounds, executed by both threads, with different means
C25_Witness ==
    /\ ParallelBatchesDone
    /\ report_call.k = 3 /\ report_call.m = 2
    /\ \A t \in Threads : \E i \in DOMAIN batch_log : batch_log[i].thread = t
    /\ \E i, j \in DOMAIN m_batch_means : m_batch_means[i] # m_batch_means[j]
    /\ \E i \in DOMAIN batch_log : batch_log[i].totals[1] # batch_log[i].totals[2]

\* the interval ci is centred on centre and its half-width is t times the
\* standard error
CentredOn(ci, centre, t) ==
    /\ ci.lower_bound.base = centre
    /\ ci.upper_bound.base = centre
    /\ ci.upper_bound.coeff = t
    /\ ci.lower_bound.coeff = QNeg(t)
    /\ ci.lower_bound.radicand = ci.upper_bound.radicand

BootCounts == {1, 2, 3}
BootSizes == {1, 2}
BootTotals == UNION {[1..n -> {0, 2}] : n \in BootSizes}
BootDraws == UNION {[1..n -> 0..(MaxReportRounds - 1)] : n \in BootSizes}

NextBoot ==
    \/ \E k \in BootCounts, m \in BootSizes, useParallel \in BOOLEAN :
          FirstRun /\ ReportRunBatches(k, m, "FULL_GAME", "ACCURATE", useParallel)
    \/ \E t \in Threads, totals \in BootTotals : ExecuteBatch(t, totals)
    \/ ReportFinish
    \/ \E indices \in BootDraws : Resample(indices)
    \/ BootstrapFinish

SpecBoot == InitReport /\ [][NextBoot]_vars

AccurateBatchesDone ==
    /\ report_pc = "done"
    /\ report_call.mem_mode = "ACCURATE"
    /\ report_call.overload = "k, m"

\* C22: after an Accurate run(K, M, ...), the lower and the upper bound of each
\* bootstrap interval (90, 95 and 99 percent) lie between the smallest and the
\* largest resample mean, and the lower bound is at most the upper bound.
C22_BootstrapBoundsWithinMeans ==
    AccurateBatchesDone =>
        \A i \in DOMAIN confidence_intervals :
            LET ci == confidence_intervals[i]
            IN /\ \E a \in DOMAIN m_bootstrap_means :
                     QLe(m_bootstrap_means[a], ci.lower_bound)
               /\ \E b \in DOMAIN m_bootstrap_means :
                     QLe(ci.upper_bound, m_bootstrap_means[b])
               /\ QLe(ci.lower_bound, ci.upper_bound)

\* three resample means, all different; the bounds of the 90 percent interval
\* are interpolated: they lie strictly inside the range of the means
C22_Witness ==
    /\ AccurateBatchesDone
    /\ Len(m_bootstrap_means) = 3
    /\ Len(confidence_intervals) = 3
    /\ m_bootstrap_means[1] # m_bootstrap_means[2]
    /\ m_bootstrap_means[2] # m_bootstrap_means[3]
    /\ confidence_intervals[1].lower_bound # m_bootstrap_means[1]
    /\ confidence_intervals[1].upper_bound # m_bootstrap_means[3]

(***************************************************************************)
(* Further properties of the simulator (specification Spec).               *)
(***************************************************************************)
ParallelAccurateDone ==
    spc = "done" /\ call.useParallel /\ call.mem_mode = "ACCURATE"

\* C26: after a parallel Accurate run, the nonzero-levels sums that the runner
\* derives by subtraction, over the base items and feature picks of a round
\* and over the feature picks alone, equal the sums the single-threaded loop
\* body accumulates directly for the same round results (the levels of the
\* items whose level is not 1).
C26_DerivedLevelSumsAreDirect ==
    ParallelAccurateDone =>
        LET direct == FoldRounds(ResetAggregates, simulated)
        IN /\ m_agg.m_run_nonzero_levels_sum = direct.m_run_nonzero_levels_sum
           /\ m_agg.m_fg_nonzero_levels_sum = direct.m_fg_nonzero_levels_sum

(***************************************************************************)
(* runAccurateMode_Parallel: the per-round stores of fg_was_triggered.     *)
(* fg_triggered is a std::vector<bool>; its elements are the bits of       *)
(* storage words, and fg_triggered[idx] = value reads the word, sets or    *)
(* clears one bit and writes the word back.  Two threads that store into   *)
(* the same word without synchronisation race; the outcomes modelled are   *)
(* the interleavings of the reads and the writes of the word.  All the     *)
(* indices of a model run lie in one word.                                 *)
(***************************************************************************)
FlagBatchCounts == {1, 2, 3}
FlagRoundCounts == {1, 2}

InitFlags ==
    /\ ReportIdle
    /\ LoadIdle
    /\ ConfigIdle
    /\ WorkersIdle
    /\ RoundIdle
    /\ StatsIdle
    /\ HistIdle
    /\ SimIdle
    /\ flag_pc = "idle"
    /\ flag_call = <<>>
    /\ fg_triggered = <<>>
    /\ flag_next = 0
    /\ flag_threads = <<>>
    /\ flag_log = <<>>
    /\ triggered_count = 0

\* runAccurateMode_Parallel(k, m, ...) up to the parallel region; the runner of
\* the numSimulations overload is the case m = 1
FlagRun(k, m) ==
    /\ flag_pc = "idle"
    /\ flag_call' = [k |-> k, m |-> m]
    /\ fg_triggered' = [idx \in 1..(k * m) |-> FALSE]
    /\ flag_log' = [idx \in 1..(k * m) |-> FALSE]
    /\ flag_next' = 0
    /\ flag_threads' = [t \in Threads |->
                          [pc |-> "loop", batch |-> 0, round |-> 0, value |-> FALSE,
                           word |-> <<>>]]
    /\ flag_pc' = "parallel"
    /\ UNCHANGED <<triggered_count, exceptFlags>>

\* thread t takes the next batch of the omp for loop (schedule(dynamic))
TakeBatch(t) ==
    /\ flag_pc = "parallel"
    /\ flag_threads[t].pc = "loop"
    /\ flag_next < flag_call.k
    /\ flag_next' = flag_next + 1
    /\ flag_threads' = [flag_threads EXCEPT ![t].pc = "round", ![t].batch = flag_next,
                                            ![t].round = 0]
    /\ UNCHANGED <<flag_pc, flag_call, fg_triggered, flag_log, triggered_count,
                   exceptFlags>>

\* idx = batch * m + round
FlagIndex(t) == flag_threads[t].batch * flag_call.m + flag_threads[t].round

\* the round of thread t returns with fg_was_triggered = value;
\* fg_triggered[idx] = value reads the word ...
StoreRead(t, value) ==
    /\ flag_pc = "parallel"
    /\ flag_threads[t].pc = "round"
    /\ flag_log' = [flag_log EXCEPT ![FlagIndex(t) + 1] = value]
    /\ flag_threads' = [flag_threads EXCEPT ![t].pc = "write", ![t].value = value,
                                            ![t].word = fg_triggered]
    /\ UNCHANGED <<flag_pc, flag_call, fg_triggered, flag_next, triggered_count,
                   exceptFlags>>

\* the word with the bit of idx set or cleared
WordWith(word, idx, value) == [word EXCEPT ![idx + 1] = value]

\* ... and writes it back with the bit of idx changed
StoreWrite(t) ==
    /\ flag_pc = "parallel"
    /\ flag_threads[t].pc = "write"
    /\ fg_triggered' = WordWith(flag_threads[t].word, FlagIndex(t), flag_threads[t].value)
    /\ flag_threads' =
         [flag_threads EXCEPT
            ![t].pc = IF flag_threads[t].round + 1 < flag_call.m THEN "round" ELSE "loop",
            ![t].round = @ + 1]
    /\ UNCHANGED <<flag_pc, flag_call, flag_next, flag_log, triggered_count, exceptFlags>>

\* no batch is left for thread t
FlagThreadEnd(t) ==
    /\ flag_pc = "parallel"
    /\ flag_threads[t].pc = "loop"
    /\ flag_next >= flag_call.k
    /\ flag_threads' = [flag_threads EXCEPT ![t].pc = "end"]
    /\ UNCHANGED <<flag_pc, flag_call, fg_triggered, flag_next, flag_log,
                   triggered_count, exceptFlags>>

\* for (bool triggered : fg_triggered) if (triggered) m_fg_triggered_count++
CountTriggered ==
    /\ flag_pc = "parallel"
    /\ \A t \in Threads : flag_threads[t].pc = "end"
    /\ triggered_count' = Cardinality({idx \in DOMAIN fg_triggered : fg_triggered[idx]})
    /\ flag_pc' = "done"
    /\ UNCHANGED <<flag_call, fg_triggered, flag_next, flag_threads, flag_log,
                   exceptFlags>>

NextFlags ==
    \/ \E k \in FlagBatchCounts, m \in FlagRoundCounts : FlagRun(k, m)
    \/ \E t \in Threads : TakeBatch(t)
    \/ \E t \in Threads, value \in BOOLEAN : StoreRead(t, value)
    \/ \E t \in Threads : StoreWrite(t)
    \/ \E t \in Threads : FlagThreadEnd(t)
    \/ CountTriggered

SpecFlags == InitFlags /\ [][NextFlags]_vars

\* C27: after the parallel region of a parallel Accurate run, under every
\* interleaving of the threads, the counted feature triggers are the rounds
\* whose result had fg_was_triggered set: no flag stored by a thread is lost
\* or overwritten by the store of another thread for another round.
C27_TriggerFlagsKept ==
    flag_pc = "done" =>
        /\ fg_triggered = flag_log
        /\ triggered_count = Cardinality({idx \in DOMAIN flag_log : flag_log[idx]})

(***************************************************************************)
(* Runs that follow one another on one simulator.  The simulator is seen   *)
(* either through its counters and its histogram (InitSim) or through its  *)
(* reports (InitReport); in both views run() may be called again whenever  *)
(* the previous call has returned or thrown, and the histogram may be      *)
(* configured again between two runs.                                      *)
(***************************************************************************)
\* Bound: calls of run() in a behaviour of the counters and the histogram.
MaxSequence == 2

\* Arguments of run() in this part of the model.
SequenceSimulationCounts == {0, 2}
SequenceBatchCounts == {-2, 1, 2}
SequenceRoundCounts == {-1, 1}
SequenceModes == {"FG_ONLY", "BG_ONLY"}
SequenceTotals == UNION {[1..n -> {0, 2}] : n \in 1..2}

\* run(numSimulations, ...), on a simulator that may have run before
RunInSequence(numSimulations, mode, mem_mode, useParallel) ==
    LET effective_simulations == EffectiveSimulations(numSimulations, mode)
    IN /\ spc \in Resting
       /\ runs < MaxSequence
       /\ LoopRounds(effective_simulations, 1) <= MaxRounds
       /\ Dispatch([overload |-> "numSimulations", k |-> 0, m |-> 0,
                    numSimulations |-> numSimulations, sim_mode |-> mode,
                    mem_mode |-> mem_mode, useParallel |-> useParallel,
                    iterations |-> effective_simulations, rounds |-> 1,
                    total |-> effective_simulations], FALSE)
       /\ UNCHANGED exceptSim

\* run(k, m, ...), on a simulator that may have run before
RunBatchesInSequence(k, m, mode, mem_mode, useParallel) ==
    LET numRounds == EffectiveRounds(k, m, mode)
    IN /\ spc \in Resting
       /\ runs < MaxSequence
       /\ LoopRounds(k, numRounds) <= MaxRounds
       /\ Dispatch([overload |-> "k, m", k |-> k, m |-> m,
                    numSimulations |-> k * m, sim_mode |-> mode,
                    mem_mode |-> mem_mode, useParallel |-> useParallel,
                    iterations |-> k, rounds |-> numRounds,
                    total |-> k * numRounds], ArgumentsRejected(Q(k), Q(m)))
       /\ UNCHANGED exceptSim

InitSequence == InitSim \/ InitReport

NextSequence ==
    \/ \E dividers \in CustomDividers : ConfigureHistogram(dividers)
    \/ \E numSimulations \in SequenceSimulationCounts, mode \in SequenceModes,
          mem_mode \in MemoryModes, useParallel \in BOOLEAN :
            RunInSequence(numSimulations, mode, mem_mode, useParallel)
    \/ \E k \in SequenceBatchCounts, m \in SequenceRoundCounts, mode \in SequenceModes,
          mem_mode \in MemoryModes, useParallel \in BOOLEAN :
            RunBatchesInSequence(k, m, mode, mem_mode, useParallel)
    \/ \E r \in AllRoundResults : SingleRound(r)
    \/ SingleFinish
    \/ \E t \in Threads : SeedRead(t)
    \/ \E t \in Threads : SeedWrite(t)
    \/ \E t \in Threads, results \in IterationResults : WorkerIteration(t, results)
    \/ \E t \in Threads : WorkerEnd(t)
    \/ Reduce
    \/ BootstrapEnd
    \/ \E numSimulations \in SequenceSimulationCounts, mode \in SequenceModes,
          mem_mode \in MemoryModes, useParallel \in BOOLEAN :
            ReportRun(numSimulations, mode, mem_mode, useParallel)
    \/ \E k \in SequenceBatchCounts, m \in SequenceRoundCounts, mode \in SequenceModes,
          mem_mode \in MemoryModes, useParallel \in BOOLEAN :
            ReportRunBatches(k, m, mode, mem_mode, useParallel)
    \/ \E t \in Threads, totals \in SequenceTotals : ExecuteBatch(t, totals)
    \/ ReportFinish
    \/ \E indices \in FirstDraws : Resample(indices)
    \/ BootstrapFinish

SpecSequence == InitSequence /\ [][NextSequence]_vars

\* the histogram a newly constructed simulator, configured with the dividers
\* of h, holds after binning the values
HistogramOfRunAlone(h, values) ==
    ObserveAll(SetCustomHistogramBins(Histogram, SubSeq(h.dividers, 3, Len(h.dividers))),
               values)

\* the counters and maxima a newly constructed simulator holds after the rounds
\* rs, executed by the runner of call c
AggregatesOfRunAlone(c, rs, ts) ==
    IF c.mem_mode = "ACCURATE" /\ c.useParallel
    THEN AggregateAccurate(ResetAggregates,
                           [i \in DOMAIN rs |-> PerRoundOf(rs[i])], Totals(rs), ts, 0)
    ELSE FoldRounds(ResetAggregates, rs)

\* the counters and the histogram are those of the rounds of this run
CountersOfRunAlone ==
    /\ m_stats.count = Len(simulated)
    /\ m_final_online_stats.count
         = (IF call.mem_mode = "EFFICIENT" THEN Len(simulated) ELSE 0)
    /\ m_results = (IF call.mem_mode = "EFFICIENT" THEN <<>> ELSE Sort(Totals(simulated)))
    /\ m_agg = AggregatesOfRunAlone(call, simulated, threads)
    /\ m_histogram = HistogramOfRunAlone(m_histogram, Totals(simulated))

\* the reports are those of the rounds of this run
ReportsOfRunAlone ==
    LET c == report_call
        totals == LoggedTotals(batch_log)
        batches == c.overload = "k, m"
    IN IF c.mem_mode = "EFFICIENT"
       THEN /\ Sort(top_values) = Largest(totals, TopCount)
            /\ QSort(m_batch_means)
                 = (IF batches
                    THEN QSort([i \in DOMAIN batch_log |-> BatchMean(batch_log[i].totals)])
                    ELSE <<>>)
            /\ confidence_intervals
                 = (IF batches /\ Len(m_batch_means) >= 2
                    THEN BatchedMeansIntervals(m_batch_means) ELSE <<>>)
            /\ m_bootstrap_means = <<>>
       ELSE /\ top_values
                 = (IF totals = <<>> THEN <<>> ELSE ExtractTopValues(Sort(totals)))
            /\ m_batch_means = <<>>
            /\ m_bootstrap_means
                 = (IF batches /\ totals # <<>>
                    THEN [i \in 1..c.batches |->
                            QDiv(Q(c.rounds * Sort(totals)[1]), Q(c.rounds))]
                    ELSE <<>>)
            /\ confidence_intervals
                 = (IF batches /\ totals # <<>>
                    THEN BootstrapIntervals(m_bootstrap_means) ELSE <<>>)

\* C23: whenever a call of run() has returned, whatever calls of run() in
\* whatever memory and threading modes and whatever histogram configurations
\* came before it on the same simulator, the observation count, the counters
\* and maxima, the histogram with underflow and overflow, the top values, the
\* batch means, the bootstrap means and the confidence intervals are those a
\* newly constructed simulator reports for the rounds of this call alone.
C23_RunsStartFromReset ==
    /\ spc = "done" => CountersOfRunAlone
    /\ report_pc = "done" => ReportsOfRunAlone

\* a second run has returned, single-threaded and over fewer rounds than the
\* two runs executed together, with a round below the histogram and a round
\* above it in its counts
C23_Witness ==
    /\ spc = "done"
    /\ runs = MaxSequence
    /\ ~call.useParallel
    /\ simulated # <<>>
    /\ m_rng > Len(simulated)
    /\ m_histogram.overflow + m_histogram.underflow > 0

====
